---- MODULE Spec2Model ----
(***************************************************************************)
(* State-machine model of the powerplay_app statistics and lineup rules:   *)
(* the relational rows (Game, GameNomination, Line, LineAssignment, Goal,  *)
(* Penalty, PlayerStats), the model validation hooks (clean), the signal   *)
(* handlers of signals.py and recompute_game of services/stats.py.         *)
(***************************************************************************)
EXTENDS Integers, FiniteSets, Sequences, TLC

VARIABLES games, position, nominations, lines, lineAssignments,
          goals, goalSeq, penalties, penaltySeq, playerStats, teams, leagues,
          statRows, rowSeq, workers,
          gameSeq, stadiums, teamEvents, eventSeq,
          txn,
          cleaned,
          runs,
          cache, evicted,
          last

vars == <<games, position, nominations, lines, lineAssignments,
          goals, goalSeq, penalties, penaltySeq, playerStats, teams, leagues,
          statRows, rowSeq, workers,
          gameSeq, stadiums, teamEvents, eventSeq,
          txn,
          cleaned,
          runs,
          cache, evicted,
          last>>

----------------------------------------------------------------------------
(* Bounds of the model *)

MaxGoals == 2
MaxPenalties == 2
MaxScore == 2
MaxForms == 2
MaxLine == 2
MaxDay == 4
MaxWorkers == 2
MaxRows == 4
MaxGames == 4
MaxMatches == 2
MaxPending == 2
MaxRuns == 2

(* The fixture: players, teams and games the rows refer to. *)
Players == {1, 2, 3}
None == 0
Teams == {1, 2, 3}
GameIds == {1, 2}

\* Player.team: players 1 and 2 play for team 1, player 3 for team 2;
\* team 3 has no players and plays in no game.
PlayerTeam(p) == IF p = 3 THEN 2 ELSE 1

Position == {"forward", "defense", "goalie"}

LineSlot == {"LW", "C", "RW", "LD", "RD", "G"}

\* Penalty.minutes values entered by the model (minor and major penalty).
MinutesInputs == {2, 5}

\* game 1 is team 1 against team 2, game 2 is team 3 against team 1
\* both are friendly games on day 2 with no stadium
NewGame(g) ==
    [home_team |-> IF g = 1 THEN 1 ELSE 3, away_team |-> IF g = 1 THEN 2 ELSE 1,
     score_home |-> 0, score_away |-> 0,
     competition |-> "friendly", league |-> None, tournament |-> None,
     starts_at |-> 2, stadium |-> None]

GameCompetition == {"league", "tournament", "friendly"}

\* calendar days
Days == 1..MaxDay

Leagues == {1, 2}

Tournaments == {1}

\* Tournament.date_start, Tournament.date_end of the one tournament
TournamentWindow == [date_start |-> 2, date_end |-> 3]

\* Team rows: teams 1 and 2 play in league 1, team 3 in league 2
DefaultTeams ==
    [t \in Teams |-> [name |-> <<"a", "b", "c">>[t],
                      league |-> IF t = 3 THEN 2 ELSE 1]]

\* League rows: league 1 runs over days 2..3, league 2 over day 1 only
DefaultLeagues ==
    [l \in Leagues |-> IF l = 1 THEN [date_start |-> 2, date_end |-> 3]
                                ELSE [date_start |-> 1, date_end |-> 1]]

\* _event_title_for: the prefix names the competition and its league or
\* tournament, followed by the names of the two teams
event_title_for(gm, T) ==
    [prefix |-> IF gm.competition = "league" /\ gm.league # None
                    THEN <<"Liga", gm.league>>
                ELSE IF gm.competition = "tournament" /\ gm.tournament # None
                    THEN <<"Turnaj", gm.tournament>>
                ELSE IF gm.competition = "friendly" THEN <<"Pratelsky", None>>
                ELSE <<"Zapas", None>>,
     home |-> T[gm.home_team].name, away |-> T[gm.away_team].name]

\* the fields of a TeamEvent that mirror its game
desired_event(gm, T) ==
    [title |-> event_title_for(gm, T), starts_at |-> gm.starts_at,
     stadium |-> gm.stadium]

EventsOf(TE, g) == {ev \in TE : ev.related_game = g}

\* the handler updates the stored event only when none was found
sync_event_no_update(TE, seq, g, gm, T) ==
    IF EventsOf(TE, g) = {}
    THEN [events |-> TE \cup {[id |-> seq + 1, related_game |-> g]
                                 @@ desired_event(gm, T)},
          seq |-> seq + 1]
    ELSE [events |-> TE, seq |-> seq]

\* _sync_event_for_game: get_or_create(related_game=game), then the stored
\* event is brought up to date
sync_event_for_game(TE, seq, g, gm, T) ==
    IF EventsOf(TE, g) = {}
    THEN [events |-> TE \cup {[id |-> seq + 1, related_game |-> g]
                                 @@ desired_event(gm, T)},
          seq |-> seq + 1]
    ELSE [events |-> {IF ev.related_game = g
                      THEN [id |-> ev.id, related_game |-> g]
                               @@ desired_event(gm, T)
                      ELSE ev : ev \in TE},
          seq |-> seq]

\* the calendar after every game of the table GM was saved once, in id order
RECURSIVE events_for(_, _, _, _)
events_for(GM, T, todo, acc) ==
    IF todo = {} THEN acc
    ELSE LET g == CHOOSE x \in todo : \A y \in todo : x <= y
         IN  events_for(GM, T, todo \ {g},
                 sync_event_for_game(acc.events, acc.seq, g, GM[g], T))

\* concurrent callers of recompute_game
Workers == 1..MaxWorkers

IdleWorker == [pc |-> "idle", player |-> None, game |-> None]

\* every stored game has its calendar event; ids are never reused
InitCalendar ==
    /\ gameSeq = Cardinality(GameIds)
    /\ teamEvents =
          events_for(games, DefaultTeams, DOMAIN games,
                     [events |-> {}, seq |-> 0]).events
    /\ eventSeq = Cardinality(DOMAIN games)

\* no transaction is open: every write commits on its own
NoTxn == [open |-> FALSE, before |-> {}, on_commit |-> <<>>]

\* a worker that is not inside recompute_game
NoRun == [pc |-> "idle", game |-> None, items |-> <<>>, stats |-> {},
          alone |-> TRUE, started |-> 0]

\* the season totals cache holds no entry
NoEntries == [k \in {} |-> None]

\* the tables the statistics and lineup operations never write
InitTables ==
    /\ teams = DefaultTeams
    /\ leagues = DefaultLeagues
    /\ statRows = {}
    /\ rowSeq = 0
    /\ workers = [w \in Workers |-> IdleWorker]
    /\ stadiums = {}
    /\ txn = NoTxn
    /\ cleaned = [w \in Workers |-> {}]
    /\ runs = [w \in Workers |-> NoRun]
    /\ cache = NoEntries
    /\ evicted = {}

----------------------------------------------------------------------------
(* PlayerStats rows: a function from the existing <<player, game>> keys *)

DefaultStats == [points |-> 0, goals |-> 0, assists |-> 0, shots |-> 0,
                 penalty_minutes |-> 0, goals_against |-> 0]

\* PlayerStats.objects.get_or_create(player_id=p, game=g)
get_or_create(st, p, g) ==
    IF <<p, g>> \in DOMAIN st THEN st
    ELSE [k \in (DOMAIN st) \cup {<<p, g>>} |->
              IF k = <<p, g>> THEN DefaultStats ELSE st[k]]

\* stats.save(update_fields=...) of a row that exists
save_row(st, p, g, row) == [st EXCEPT ![<<p, g>>] = row]

\* the reset forgets the assists column
reset_stats_keeps_assists(st, g) ==
    [k \in DOMAIN st |->
        IF k[2] = g
        THEN [st[k] EXCEPT !.points = 0, !.goals = 0,
                           !.penalty_minutes = 0, !.goals_against = 0]
        ELSE st[k]]

\* the reset forgets the points column
reset_stats_keeps_points(st, g) ==
    [k \in DOMAIN st |->
        IF k[2] = g
        THEN [st[k] EXCEPT !.goals = 0, !.assists = 0,
                           !.penalty_minutes = 0, !.goals_against = 0]
        ELSE st[k]]

\* no reset at all
reset_stats_skipped(st, g) == st

\* the reset forgets the penalty minutes column
reset_stats_keeps_minutes(st, g) ==
    [k \in DOMAIN st |->
        IF k[2] = g
        THEN [st[k] EXCEPT !.points = 0, !.goals = 0, !.assists = 0,
                           !.goals_against = 0]
        ELSE st[k]]

\* the reset writes every column of the rows, the shots too
reset_stats_clears_shots(st, g) ==
    [k \in DOMAIN st |-> IF k[2] = g THEN DefaultStats ELSE st[k]]

\* PlayerStats.objects.filter(game=game).update(points=0, goals=0, ...)
reset_stats(st, g) ==
    [k \in DOMAIN st |->
        IF k[2] = g
        THEN [st[k] EXCEPT !.points = 0, !.goals = 0, !.assists = 0,
                           !.penalty_minutes = 0, !.goals_against = 0]
        ELSE st[k]]

RECURSIVE SumMinutes(_)
SumMinutes(S) ==
    IF S = {} THEN 0
    ELSE LET x == CHOOSE y \in S : TRUE
         IN  x.minutes + SumMinutes(S \ {x})

\* for row in Goal.objects.filter(game=game).values("scorer").annotate(c=Count("id"))
RECURSIVE goals_step(_, _, _, _)
goals_step(st, g, G, todo) ==
    IF todo = {} THEN st
    ELSE LET p   == CHOOSE q \in todo : TRUE
             c   == Cardinality({x \in G : x.game = g /\ x.scorer = p})
             st1 == get_or_create(st, p, g)
             row == st1[<<p, g>>]
             new == [row EXCEPT !.goals = c, !.points = c + row.assists]
         IN  goals_step(save_row(st1, p, g, new), g, G, todo \ {p})

AssistOf(x, field) == IF field = "assist_1" THEN x.assist_1 ELSE x.assist_2

\* for row in assist_qs: stats.assists = (stats.assists or 0) + row["c"]
RECURSIVE assists_step(_, _, _, _, _)
assists_step(st, g, G, field, todo) ==
    IF todo = {} THEN st
    ELSE LET p   == CHOOSE q \in todo : TRUE
             c   == Cardinality({x \in G : x.game = g /\ AssistOf(x, field) = p})
             st1 == get_or_create(st, p, g)
             row == st1[<<p, g>>]
             a   == row.assists + c
             new == [row EXCEPT !.assists = a, !.points = row.goals + a]
         IN  assists_step(save_row(st1, p, g, new), g, G, field, todo \ {p})

\* for row in Penalty.objects.filter(game=game).values("penalized_player").annotate(mins=Sum("minutes"))
RECURSIVE penalties_step(_, _, _, _)
penalties_step(st, g, P, todo) ==
    IF todo = {} THEN st
    ELSE LET p   == CHOOSE q \in todo : TRUE
             m   == SumMinutes({x \in P : x.game = g /\ x.penalized_player = p})
             st1 == get_or_create(st, p, g)
             new == [st1[<<p, g>>] EXCEPT !.penalty_minutes = m]
         IN  penalties_step(save_row(st1, p, g, new), g, P, todo \ {p})

\* conceded = game.score_away if la.line.team_id == home_id else game.score_home
conceded_swapped(la, game) ==
    IF la.line.team = game.home_team THEN game.score_home ELSE game.score_away

conceded_by(la, game) ==
    IF la.line.team = game.home_team THEN game.score_away ELSE game.score_home

\* for la in goalies: goals_against from the stored score of the other side
RECURSIVE goalies_step(_, _, _, _, _)
goalies_step(st, g, gm, pos, todo) ==
    IF todo = {} THEN st
    ELSE LET la == CHOOSE x \in todo : TRUE
         IN  IF la.player = None \/ pos[la.player] # "goalie"
             THEN goalies_step(st, g, gm, pos, todo \ {la})
             ELSE LET conceded == conceded_by(la, gm[g])
                      st1 == get_or_create(st, la.player, g)
                      new == [st1[<<la.player, g>>] EXCEPT !.goals_against = conceded]
                  IN  goalies_step(save_row(st1, la.player, g, new), g, gm, pos, todo \ {la})

\* the rows that recompute_game leaves when it raises: before its first
\* statement, after the reset, or after one of its loops but the last
recompute_failed(g, st, gm, G, P, LA, pos) ==
    LET s0 == reset_stats(st, g)
        s1 == goals_step(s0, g, G, {x.scorer : x \in {y \in G : y.game = g}})
        s2 == assists_step(s1, g, G, "assist_1",
                  {x.assist_1 : x \in {y \in G : y.game = g /\ y.assist_1 # None}})
        s3 == assists_step(s2, g, G, "assist_2",
                  {x.assist_2 : x \in {y \in G : y.game = g /\ y.assist_2 # None}})
        s4 == penalties_step(s3, g, P,
                  {x.penalized_player : x \in {y \in P : y.game = g}})
    IN  {st, s0, s1, s2, s3, s4}

\* recompute_game(game), on the rows gm (Game), G (Goal), P (Penalty),
\* LA (LineAssignment), pos (Player.position) and st (PlayerStats)
recompute_game(g, st, gm, G, P, LA, pos) ==
    LET s0 == reset_stats(st, g)
        s1 == goals_step(s0, g, G, {x.scorer : x \in {y \in G : y.game = g}})
        s2 == assists_step(s1, g, G, "assist_1",
                  {x.assist_1 : x \in {y \in G : y.game = g /\ y.assist_1 # None}})
        s3 == assists_step(s2, g, G, "assist_2",
                  {x.assist_2 : x \in {y \in G : y.game = g /\ y.assist_2 # None}})
        s4 == penalties_step(s3, g, P,
                  {x.penalized_player : x \in {y \in P : y.game = g}})
        s5 == goalies_step(s4, g, gm, pos,
                  {la \in LA : la.line.game = g /\ la.line.line_number = 0 /\ la.slot = "G"})
    IN  s5

----------------------------------------------------------------------------
(* The season totals cache: entries by <<player, league, competition>> *)

\* _COMP_KEYS
COMP_KEYS == {"league", "tournament", "friendly", "all"}

\* _totals_cache_key(player_id, league_id, cmp); the league part of a key is
\* the league id, or None for the text "none" both callers put in its place
totals_cache_key(player_id, league_id, cmp) == <<player_id, league_id, cmp>>

\* possible_leagues of recompute_game: the league of the game, of its home
\* team and of its away team, and no league
possible_leagues(gm, T) ==
    {gm.league, T[gm.home_team].league, T[gm.away_team].league, None}

invalidate_league_keys_only(c, player_ids, league_ids) ==
    [k \in DOMAIN c \ {totals_cache_key(p, l, "league") :
                          p \in player_ids, l \in league_ids} |-> c[k]]

\* invalidate_player_totals_cache(player_ids, league_ids): cache.delete_many
\* of the keys of every player, league and competition switch
invalidate_player_totals_cache(c, player_ids, league_ids) ==
    IF player_ids = {} THEN c
    ELSE LET keys == {totals_cache_key(p, l, cmp) :
                         p \in player_ids, l \in league_ids, cmp \in COMP_KEYS}
         IN  [k \in DOMAIN c \ keys |-> c[k]]

\* the last statements of recompute_game(g): the players with a PlayerStats
\* row of the game are the affected players
invalidate_after(c, st, g, GM, T) ==
    invalidate_player_totals_cache(
        c, {k[1] : k \in {x \in DOMAIN st : x[2] = g}}, possible_leagues(GM[g], T))

\* recompute_game ran to its end for each game of the sequence todo
RECURSIVE invalidate_each(_, _, _, _, _)
invalidate_each(c, st, todo, GM, T) ==
    IF todo = <<>> THEN c
    ELSE invalidate_each(
             IF Head(todo) \in DOMAIN GM
                 THEN invalidate_after(c, st, Head(todo), GM, T) ELSE c,
             st, Tail(todo), GM, T)

\* the game ids of a set in ascending order
RECURSIVE ascending(_)
ascending(S) ==
    IF S = {} THEN <<>>
    ELSE LET g == CHOOSE x \in S : \A y \in S : x <= y
         IN  <<g>> \o ascending(S \ {g})

\* the cache after the recomputes of an operation that leaves the rows
\* playerStats', games' and teams'; an operation whose recompute_game did
\* not run to its end (done is false) leaves the cache as it is
Invalidate(done, todo) ==
    /\ cache' = IF done
                   THEN invalidate_each(cache, playerStats', todo, games', teams')
                   ELSE cache
    /\ evicted' = DOMAIN cache \ DOMAIN cache'

----------------------------------------------------------------------------
(* Validation hooks: the first ValidationError a clean() raises, or "ok" *)

Participants(g) == {games[g].home_team, games[g].away_team}

\* the check accepts only the home team
participant_error_home_only(team, g) ==
    IF team # games[g].home_team THEN "team" ELSE "ok"

\* if self.game_id and self.team_id and self.team_id not in (home, away): raise
participant_error(team, g) ==
    IF team \notin Participants(g) THEN "team" ELSE "ok"

\* GameEventBase.clean
GameEventBase_clean(e) == participant_error(e.team, e.game)

Nominated(g, p) == \E n \in nominations : n.game = g /\ n.player = p

\* Goal.clean, the loop body for one player of [scorer, assist_1, assist_2]
player_error(e, p) ==
    IF PlayerTeam(p) # e.team THEN "player_team"
    ELSE IF ~Nominated(e.game, p) THEN "nomination"
    ELSE "ok"

\* the loop skips the second assist
goal_players_no_assist_2(e) == <<e.scorer, e.assist_1>>

\* players = [self.scorer, self.assist_1, self.assist_2]
goal_players(e) == <<e.scorer, e.assist_1, e.assist_2>>

\* for player in filter(None, players): the error of the first failing player
RECURSIVE players_error(_, _, _)
players_error(e, ps, i) ==
    IF i > Len(ps) THEN "ok"
    ELSE IF ps[i] # None /\ player_error(e, ps[i]) # "ok"
         THEN player_error(e, ps[i])
         ELSE players_error(e, ps, i + 1)

\* the second assist is compared with the scorer only
assist_error_scorer_only(e) ==
    IF e.assist_1 # None /\ e.assist_1 = e.scorer THEN "assist_1"
    ELSE IF e.assist_2 # None /\ e.assist_2 = e.scorer THEN "assist_2"
    ELSE "ok"

\* Goal.clean, the two checks after the loop
assist_error(e) ==
    IF e.assist_1 # None /\ e.assist_1 = e.scorer THEN "assist_1"
    ELSE IF e.assist_2 # None /\ (e.assist_2 = e.scorer \/ e.assist_2 = e.assist_1)
         THEN "assist_2"
    ELSE "ok"

\* Goal.clean
Goal_error(e) ==
    IF GameEventBase_clean(e) # "ok" THEN GameEventBase_clean(e)
    ELSE IF players_error(e, goal_players(e), 1) # "ok"
         THEN players_error(e, goal_players(e), 1)
    ELSE assist_error(e)

Goal_clean(e) == Goal_error(e) = "ok"

\* Penalty.clean
Penalty_error(e) ==
    IF GameEventBase_clean(e) # "ok" THEN GameEventBase_clean(e)
    ELSE IF PlayerTeam(e.penalized_player) # e.team THEN "player_team"
    ELSE IF ~Nominated(e.game, e.penalized_player) THEN "nomination"
    ELSE "ok"

Penalty_clean(e) == Penalty_error(e) = "ok"

\* Line.clean
Line_error(l) == participant_error(l.team, l.game)

\* GameNomination.clean
GameNomination_error(n) ==
    IF PlayerTeam(n.player) # n.team THEN "player_team"
    ELSE participant_error(n.team, n.game)

----------------------------------------------------------------------------
(* Operations on Goal and Penalty rows, each with its signal handler *)

\* bookkeeping of the operation that ran last: its kind and its game; "again"
\* marks a recompute_game call that directly follows a recompute of that game
Done(op, g) ==
    [op |-> op, game |-> g, err |-> "ok", arg |-> None, again |-> FALSE,
     failed |-> FALSE]

\* bookkeeping of a write whose handler called recompute_game: "failed" says
\* that recompute_game raised, "err" what the caller of the write saw
Handled(op, g, raises, caught) ==
    [Done(op, g) EXCEPT !.failed = raises,
                        !.err = IF raises /\ ~caught THEN "raised" ELSE "ok"]

\* bookkeeping of a clean() call on the object arg: the error it raised
Cleaned(op, arg, err) ==
    [Done(op, arg.game) EXCEPT !.err = err, !.arg = arg]

\* the operations that end with recompute_game(last.game)
RecomputeOps == {"goal_save", "goal_delete", "penalty_save", "penalty_delete",
                 "lineup_save", "lineup_delete", "game_save", "recompute"}

Recomputed(g) == last.op \in RecomputeOps /\ last.game = g /\ ~last.failed

\* Goal(...).full_clean(); save(); post_save -> _events_changed
GoalSavedAt(g, t, s, a1, a2, period, sec, raises) ==
    LET e == [id |-> goalSeq + 1, game |-> g, team |-> t,
              scorer |-> s, assist_1 |-> a1, assist_2 |-> a2,
              period |-> period, second_in_period |-> sec]
    IN  /\ goalSeq < MaxGoals
        /\ g \in DOMAIN games
        /\ Goal_clean(e)
        /\ goals' = goals \cup {e}
        /\ goalSeq' = goalSeq + 1
        /\ txn.open => ~raises
        /\ playerStats' \in
              IF raises
              THEN recompute_failed(g, playerStats, games, goals', penalties,
                                    lineAssignments, position)
              ELSE {recompute_game(g, playerStats, games, goals', penalties,
                                   lineAssignments, position)}
        /\ last' = Handled("goal_save", g, raises, FALSE)
        /\ UNCHANGED <<runs, cleaned, txn, gameSeq, stadiums, teamEvents,
                       eventSeq, statRows, rowSeq, workers, teams, leagues,
                       games, position, nominations, lines, lineAssignments,
                       penalties, penaltySeq>>
        /\ Invalidate(~raises, <<g>>)

\* a goal at the start of the first period
GoalSaved(g, t, s, a1, a2, raises) ==
    GoalSavedAt(g, t, s, a1, a2, 1, 0, raises)

\* the same write with a recompute_game that returns normally
CreateGoal(g, t, s, a1, a2) == GoalSaved(g, t, s, a1, a2, FALSE)

\* an existing Goal edited: full_clean(); save(); post_save -> _events_changed
\* recomputes instance.game, the game the row belongs to after the edit
UpdateGoal(old, g, t, s, a1, a2) ==
    LET e == [id |-> old.id, game |-> g, team |-> t,
              scorer |-> s, assist_1 |-> a1, assist_2 |-> a2,
              period |-> old.period,
              second_in_period |-> old.second_in_period]
    IN  /\ old \in goals
        /\ e # old
        /\ g \in DOMAIN games
        /\ Goal_clean(e)
        /\ goals' = (goals \ {old}) \cup {e}
        /\ playerStats' = recompute_game(g, playerStats, games, goals',
                                 penalties, lineAssignments, position)
        /\ last' = Done("goal_save", g)
        /\ UNCHANGED <<runs, cleaned, txn, gameSeq, stadiums, teamEvents,
                       eventSeq, statRows, rowSeq, workers, teams, leagues,
                       games, position, nominations, lines, lineAssignments,
                       goalSeq, penalties, penaltySeq>>
        /\ Invalidate(TRUE, <<g>>)

\* goal.delete(); post_delete -> _events_changed
GoalDeleted(old, raises) ==
    /\ old \in goals
    /\ goals' = goals \ {old}
    /\ txn.open => ~raises
    /\ playerStats' \in
          IF raises
          THEN recompute_failed(old.game, playerStats, games, goals', penalties,
                                lineAssignments, position)
          ELSE {recompute_game(old.game, playerStats, games, goals', penalties,
                               lineAssignments, position)}
    /\ last' = Handled("goal_delete", old.game, raises, FALSE)
    /\ UNCHANGED <<runs, cleaned, txn, gameSeq, stadiums, teamEvents,
                   eventSeq, statRows, rowSeq, workers, teams, leagues,
                   games, position, nominations, lines, lineAssignments,
                   goalSeq, penalties, penaltySeq>>
    /\ Invalidate(~raises, <<old.game>>)

\* the same write with a recompute_game that returns normally
DeleteGoal(old) == GoalDeleted(old, FALSE)

\* Penalty(...).full_clean(); save(); post_save -> _events_changed
PenaltySaved(g, t, p, m, raises) ==
    LET e == [id |-> penaltySeq + 1, game |-> g, team |-> t,
              penalized_player |-> p, minutes |-> m]
    IN  /\ penaltySeq < MaxPenalties
        /\ g \in DOMAIN games
        /\ Penalty_clean(e)
        /\ penalties' = penalties \cup {e}
        /\ penaltySeq' = penaltySeq + 1
        /\ txn.open => ~raises
        /\ playerStats' \in
              IF raises
              THEN recompute_failed(g, playerStats, games, goals, penalties',
                                    lineAssignments, position)
              ELSE {recompute_game(g, playerStats, games, goals, penalties',
                                   lineAssignments, position)}
        /\ last' = Handled("penalty_save", g, raises, FALSE)
        /\ UNCHANGED <<runs, cleaned, txn, gameSeq, stadiums, teamEvents,
                       eventSeq, statRows, rowSeq, workers, teams, leagues,
                       games, position, nominations, lines, lineAssignments,
                       goals, goalSeq>>
        /\ Invalidate(~raises, <<g>>)

\* the same write with a recompute_game that returns normally
CreatePenalty(g, t, p, m) == PenaltySaved(g, t, p, m, FALSE)

\* an existing Penalty edited: full_clean(); save(); post_save -> _events_changed
UpdatePenalty(old, g, t, p, m) ==
    LET e == [id |-> old.id, game |-> g, team |-> t,
              penalized_player |-> p, minutes |-> m]
    IN  /\ old \in penalties
        /\ e # old
        /\ g \in DOMAIN games
        /\ Penalty_clean(e)
        /\ penalties' = (penalties \ {old}) \cup {e}
        /\ playerStats' = recompute_game(g, playerStats, games, goals,
                                 penalties', lineAssignments, position)
        /\ last' = Done("penalty_save", g)
        /\ UNCHANGED <<runs, cleaned, txn, gameSeq, stadiums, teamEvents,
                       eventSeq, statRows, rowSeq, workers, teams, leagues,
                       games, position, nominations, lines, lineAssignments,
                       goals, goalSeq, penaltySeq>>
        /\ Invalidate(TRUE, <<g>>)

\* penalty.delete(); post_delete -> _events_changed
PenaltyDeleted(old, raises) ==
    /\ old \in penalties
    /\ penalties' = penalties \ {old}
    /\ txn.open => ~raises
    /\ playerStats' \in
          IF raises
          THEN recompute_failed(old.game, playerStats, games, goals, penalties',
                                lineAssignments, position)
          ELSE {recompute_game(old.game, playerStats, games, goals, penalties',
                               lineAssignments, position)}
    /\ last' = Handled("penalty_delete", old.game, raises, FALSE)
    /\ UNCHANGED <<runs, cleaned, txn, gameSeq, stadiums, teamEvents,
                   eventSeq, statRows, rowSeq, workers, teams, leagues,
                   games, position, nominations, lines, lineAssignments,
                   goals, goalSeq, penaltySeq>>
    /\ Invalidate(~raises, <<old.game>>)

\* the same write with a recompute_game that returns normally
DeletePenalty(old) == PenaltyDeleted(old, FALSE)

\* GameAdmin.recompute_selected_games: recompute_game called directly
RecomputeSelected(g) ==
    /\ g \in DOMAIN games
    /\ playerStats' = recompute_game(g, playerStats, games, goals, penalties,
                                     lineAssignments, position)
    /\ last' = [Done("recompute", g) EXCEPT !.again = Recomputed(g)]
    /\ UNCHANGED <<runs, cleaned, txn, gameSeq, stadiums, teamEvents,
                   eventSeq, statRows, rowSeq, workers, teams, leagues,
                   games, position, nominations, lines, lineAssignments,
                   goals, goalSeq, penalties, penaltySeq>>
    /\ Invalidate(TRUE, <<g>>)

----------------------------------------------------------------------------
(* Lineup: LineAssignment rows, keyed by (line, slot) as unique_together *)

\* the rows of the table other than the one being saved (exclude(pk=self.pk))
OtherAssignments(la) ==
    {o \in lineAssignments : ~(o.line = la.line /\ o.slot = la.slot)}

\* LineAssignment.clean
LineAssignment_clean(la) ==
    /\ (la.player # None => PlayerTeam(la.player) = la.line.team)
    /\ (la.line.line_number = 0 =>
           /\ la.slot = "G"
           /\ (la.player # None => position[la.player] = "goalie"))
    /\ (la.player # None =>
           ~\E o \in OtherAssignments(la) :
                 o.player = la.player /\ o.line.game = la.line.game)

\* LineAssignment(...).full_clean(); save(); post_save -> _lineup_changed
LineAssignmentSaved(l, slot, p, raises) ==
    LET la  == [line |-> l, slot |-> slot, player |-> p]
    IN  /\ l \in lines
        /\ la \notin lineAssignments
        /\ LineAssignment_clean(la)
        /\ lineAssignments' = OtherAssignments(la) \cup {la}
        /\ playerStats' \in
              IF raises
              THEN recompute_failed(l.game, playerStats, games, goals, penalties,
                                    lineAssignments', position)
              ELSE {recompute_game(l.game, playerStats, games, goals, penalties,
                                   lineAssignments', position)}
        /\ last' = Handled("lineup_save", l.game, raises, TRUE)
        /\ UNCHANGED <<runs, cleaned, txn, gameSeq, stadiums, teamEvents,
                       eventSeq, statRows, rowSeq, workers, teams, leagues,
                       games, position, nominations, lines, goals, goalSeq,
                       penalties, penaltySeq>>
        /\ Invalidate(~raises, <<l.game>>)

\* the same write with a recompute_game that returns normally
SaveLineAssignment(l, slot, p) == LineAssignmentSaved(l, slot, p, FALSE)

\* LineAssignmentInlineFormSet: the rows of the formset of a line, by index
SKATER_ORDER == <<"LW", "C", "RW", "LD", "RD">>

FormSlot(l, idx) == IF l.line_number = 0 THEN "G" ELSE SKATER_ORDER[idx]

FormCount(l) == IF l.line_number = 0 THEN 1 ELSE MaxForms

\* LineAssignmentInlineFormSet.__init__: the players offered by the player
\* field (nominated for the line's team; goalies in line 0, skaters elsewhere)
PlayerChoices(l) ==
    {p \in Players :
        /\ \E n \in nominations : n.game = l.game /\ n.team = l.team /\ n.player = p
        /\ (l.line_number = 0 <=> position[p] = "goalie")}

\* LineAssignmentInlineFormSet.save: obj.save() per filled form, in index
\* order, each followed by post_save -> _lineup_changed
RECURSIVE formset_save(_, _, _, _, _)
formset_save(st, LA, l, choice, idx) ==
    IF idx > FormCount(l) THEN st
    ELSE IF choice[idx] = None THEN formset_save(st, LA, l, choice, idx + 1)
    ELSE LET la  == [line |-> l, slot |-> FormSlot(l, idx), player |-> choice[idx]]
             LA1 == LA \cup {la}
             st1 == recompute_game(l.game, st, games, goals, penalties, LA1, position)
         IN  formset_save(st1, LA1, l, choice, idx + 1)

\* one submission of the inline formset of a line that has no saved rows:
\* every filled form is validated (field choices, then LineAssignment.clean
\* against the stored rows) before the first one is saved
SubmitLineFormset(l, choice) ==
    LET filled == {i \in 1..FormCount(l) : choice[i] # None}
        row(i) == [line |-> l, slot |-> FormSlot(l, i), player |-> choice[i]]
    IN  /\ l \in lines
        /\ ~\E o \in lineAssignments : o.line = l
        /\ filled # {}
        /\ \A i \in filled : choice[i] \in PlayerChoices(l)
        /\ \A i \in filled : LineAssignment_clean(row(i))
        /\ lineAssignments' = lineAssignments \cup {row(i) : i \in filled}
        /\ playerStats' = formset_save(playerStats, lineAssignments, l, choice, 1)
        /\ last' = Done("lineup_save", l.game)
        /\ UNCHANGED <<runs, cleaned, txn, gameSeq, stadiums, teamEvents,
                       eventSeq, statRows, rowSeq, workers, teams, leagues,
                       games, position, nominations, lines, goals, goalSeq,
                       penalties, penaltySeq>>
        /\ Invalidate(TRUE, <<l.game>>)

\* assignment.delete(); post_delete -> _lineup_changed
LineAssignmentDeleted(la, raises) ==
    /\ la \in lineAssignments
    /\ lineAssignments' = lineAssignments \ {la}
    /\ playerStats' \in
          IF raises
          THEN recompute_failed(la.line.game, playerStats, games, goals, penalties,
                                lineAssignments', position)
          ELSE {recompute_game(la.line.game, playerStats, games, goals, penalties,
                               lineAssignments', position)}
    /\ last' = Handled("lineup_delete", la.line.game, raises, TRUE)
    /\ UNCHANGED <<runs, cleaned, txn, gameSeq, stadiums, teamEvents,
                   eventSeq, statRows, rowSeq, workers, teams, leagues,
                   games, position, nominations, lines, goals, goalSeq,
                   penalties, penaltySeq>>
    /\ Invalidate(~raises, <<la.line.game>>)

\* the same write with a recompute_game that returns normally
DeleteLineAssignment(la) == LineAssignmentDeleted(la, FALSE)

\* PlayerAdmin: the position of a player is edited (no signal handler)
EditPosition(p, pos) ==
    /\ position[p] # pos
    /\ position' = [position EXCEPT ![p] = pos]
    /\ last' = Done("player_save", None)
    /\ UNCHANGED <<cache, evicted, runs, cleaned, txn, gameSeq, stadiums, teamEvents,
                   eventSeq, statRows, rowSeq, workers, teams, leagues,
                   games, nominations, lines, lineAssignments, goals,
                   goalSeq, penalties, penaltySeq, playerStats>>

\* the registered callback is lost
on_commit_dropped(T, g, gm) == T

\* transaction.on_commit(lambda: recompute_game(instance)): inside a
\* transaction the callback is queued with the instance it closes over
on_commit(T, g, gm) ==
    IF T.open
    THEN [T EXCEPT !.on_commit = Append(@, [game |-> g, instance |-> gm])]
    ELSE T

\* GameAdmin: the stored score is edited; post_save -> _game_saved_sync_event
\* brings the calendar event up to date and registers recompute_game, which
\* runs at once when no transaction is open and at the commit otherwise
GameScoreSaved(g, sh, sa, raises) ==
    /\ g \in DOMAIN games
    /\ <<sh, sa>> # <<games[g].score_home, games[g].score_away>>
    /\ txn.open => (~raises /\ Len(txn.on_commit) < MaxPending)
    /\ games' = [games EXCEPT ![g].score_home = sh, ![g].score_away = sa]
    /\ playerStats' \in
          IF txn.open THEN {playerStats}
          ELSE IF raises
              THEN recompute_failed(g, playerStats, games', goals, penalties,
                                    lineAssignments, position)
          ELSE {recompute_game(g, playerStats, games', goals, penalties,
                               lineAssignments, position)}
    /\ txn' = on_commit(txn, g, games'[g])
    /\ teamEvents' =
          sync_event_for_game(teamEvents, eventSeq, g, games'[g], teams).events
    /\ eventSeq' =
          sync_event_for_game(teamEvents, eventSeq, g, games'[g], teams).seq
    /\ last' = Handled("game_save", g, raises, FALSE)
    /\ UNCHANGED <<runs, cleaned, gameSeq, stadiums, statRows, rowSeq,
                   workers, teams, leagues, position, nominations, lines,
                   lineAssignments, goals, goalSeq, penalties, penaltySeq>>
    /\ Invalidate(~txn.open /\ ~raises, <<g>>)

\* the same write with a recompute_game that returns normally
SaveGameScore(g, sh, sa) == GameScoreSaved(g, sh, sa, FALSE)

\* the friendly branch looks at the league only
friendly_error_league_only(gm) ==
    IF gm.league # None THEN "linkage" ELSE "ok"

\* Game.clean, else branch: a friendly game has neither league nor tournament
friendly_error(gm) ==
    IF gm.league # None \/ gm.tournament # None THEN "linkage" ELSE "ok"

\* Game.clean, the branch of a league game
league_error(gm) ==
    IF gm.league = None THEN "league"
    ELSE IF gm.tournament # None THEN "tournament"
    ELSE IF teams[gm.home_team].league # gm.league THEN "home_team"
    ELSE IF teams[gm.away_team].league # gm.league THEN "away_team"
    ELSE IF ~(/\ leagues[gm.league].date_start <= gm.starts_at
              /\ gm.starts_at <= leagues[gm.league].date_end) THEN "starts_at"
    ELSE "ok"

\* Game.clean, the branch of a tournament game
tournament_error(gm) ==
    IF gm.tournament = None THEN "tournament"
    ELSE IF gm.league # None THEN "league"
    ELSE IF ~(/\ TournamentWindow.date_start <= gm.starts_at
              /\ gm.starts_at <= TournamentWindow.date_end) THEN "starts_at"
    ELSE "ok"

\* Game.clean
Game_error(gm) ==
    IF gm.home_team = gm.away_team THEN "teams"
    ELSE IF gm.competition = "league" THEN league_error(gm)
    ELSE IF gm.competition = "tournament" THEN tournament_error(gm)
    ELSE friendly_error(gm)

----------------------------------------------------------------------------
(* Nominations and lines, and clean() called on an unsaved object *)

\* GameNomination(...).full_clean(); save()
AddNomination(g, p, t) ==
    LET n == [game |-> g, player |-> p, team |-> t]
    IN  /\ g \in DOMAIN games
        /\ GameNomination_error(n) = "ok"
        /\ ~Nominated(g, p)
        /\ nominations' = nominations \cup {n}
        /\ last' = Done("nomination_save", g)
        /\ UNCHANGED <<cache, evicted, runs, cleaned, txn, gameSeq, stadiums, teamEvents,
                       eventSeq, statRows, rowSeq, workers, teams, leagues,
                       games, position, lines, lineAssignments, goals,
                       goalSeq, penalties, penaltySeq, playerStats>>

\* nomination.delete()
DeleteNomination(n) ==
    /\ n \in nominations
    /\ nominations' = nominations \ {n}
    /\ last' = Done("nomination_delete", n.game)
    /\ UNCHANGED <<cache, evicted, runs, cleaned, txn, gameSeq, stadiums, teamEvents,
                   eventSeq, statRows, rowSeq, workers, teams, leagues,
                   games, position, lines, lineAssignments, goals, goalSeq,
                   penalties, penaltySeq, playerStats>>

\* Line(...).full_clean(); save()
SaveLine(g, t, n) ==
    LET l == [game |-> g, team |-> t, line_number |-> n]
    IN  /\ g \in DOMAIN games
        /\ Line_error(l) = "ok"
        /\ l \notin lines
        /\ lines' = lines \cup {l}
        /\ last' = Done("line_save", g)
        /\ UNCHANGED <<cache, evicted, runs, cleaned, txn, gameSeq, stadiums, teamEvents,
                       eventSeq, statRows, rowSeq, workers, teams, leagues,
                       games, position, nominations, lineAssignments, goals,
                       goalSeq, penalties, penaltySeq, playerStats>>

\* goal.full_clean() on a Goal object, stored or not; nothing is written
ValidateGoal(e) ==
    /\ e.game \in DOMAIN games
    /\ last' = Cleaned("goal_clean", e, Goal_error(e))
    /\ UNCHANGED <<cache, evicted, runs, cleaned, txn, gameSeq, stadiums, teamEvents,
                   eventSeq, statRows, rowSeq, workers, teams, leagues,
                   games, position, nominations, lines, lineAssignments,
                   goals, goalSeq, penalties, penaltySeq, playerStats>>

\* penalty.full_clean()
ValidatePenalty(e) ==
    /\ e.game \in DOMAIN games
    /\ last' = Cleaned("penalty_clean", e, Penalty_error(e))
    /\ UNCHANGED <<cache, evicted, runs, cleaned, txn, gameSeq, stadiums, teamEvents,
                   eventSeq, statRows, rowSeq, workers, teams, leagues,
                   games, position, nominations, lines, lineAssignments,
                   goals, goalSeq, penalties, penaltySeq, playerStats>>

\* line.full_clean()
ValidateLine(l) ==
    /\ l.game \in DOMAIN games
    /\ last' = Cleaned("line_clean", l, Line_error(l))
    /\ UNCHANGED <<cache, evicted, runs, cleaned, txn, gameSeq, stadiums, teamEvents,
                   eventSeq, statRows, rowSeq, workers, teams, leagues,
                   games, position, nominations, lines, lineAssignments,
                   goals, goalSeq, penalties, penaltySeq, playerStats>>

\* nomination.full_clean()
ValidateNomination(n) ==
    /\ n.game \in DOMAIN games
    /\ last' = Cleaned("nomination_clean", n, GameNomination_error(n))
    /\ UNCHANGED <<cache, evicted, runs, cleaned, txn, gameSeq, stadiums, teamEvents,
                   eventSeq, statRows, rowSeq, workers, teams, leagues,
                   games, position, nominations, lines, lineAssignments,
                   goals, goalSeq, penalties, penaltySeq, playerStats>>

----------------------------------------------------------------------------
(* The event log: games with every player of the two sides nominated *)

EmptyStats == [k \in {} |-> DefaultStats]

Idle == Done("none", None)

Nominations(G, N) ==
    {[game |-> g, player |-> p, team |-> PlayerTeam(p)] : g \in G, p \in N}

DefaultLines(G) ==
    {l \in [game : G, team : Teams, line_number : {0, 1}] :
        l.team \in {NewGame(l.game).home_team, NewGame(l.game).away_team}}

\* games G exist, with their default lines and the players N nominated
Fixture(G, N) ==
    /\ games = [g \in G |-> NewGame(g)]
    /\ InitCalendar
    /\ position = [p \in Players |-> IF p = 1 THEN "forward" ELSE "goalie"]
    /\ nominations = Nominations(G, N)
    /\ lines = DefaultLines(G)
    /\ lineAssignments = {}
    /\ goals = {}
    /\ goalSeq = 0
    /\ penalties = {}
    /\ penaltySeq = 0
    /\ playerStats = EmptyStats
    /\ last = Idle
    /\ InitTables

NextEvents ==
    \/ \E g \in GameIds, t \in Teams, s \in Players, a1, a2 \in Players \cup {None} :
          CreateGoal(g, t, s, a1, a2)
    \/ \E old \in goals, g \in GameIds, t \in Teams, s \in Players,
          a1, a2 \in Players \cup {None} : UpdateGoal(old, g, t, s, a1, a2)
    \/ \E old \in goals : DeleteGoal(old)
    \/ \E g \in GameIds, t \in Teams, p \in Players, m \in MinutesInputs :
          CreatePenalty(g, t, p, m)
    \/ \E old \in penalties, g \in GameIds, t \in Teams, p \in Players,
          m \in MinutesInputs : UpdatePenalty(old, g, t, p, m)
    \/ \E old \in penalties : DeletePenalty(old)
    \/ \E g \in GameIds : RecomputeSelected(g)

\* one game: the statistics of a game under its goal and penalty events
InitStats == Fixture({1}, Players)

SpecStats == InitStats /\ [][NextEvents]_vars

\* two games with one nominated player: events may be moved from one game
\* to the other
InitEvents == Fixture(GameIds, {1})

SpecEvents == InitEvents /\ [][NextEvents]_vars

\* one game with a goal and a penalty on record: goalies, scores and positions
FirstGoal == [id |-> 1, game |-> 1, team |-> 1, scorer |-> 1, assist_1 |-> 2,
              assist_2 |-> None, period |-> 1, second_in_period |-> 0]

FirstPenalty == [id |-> 1, game |-> 1, team |-> 2, penalized_player |-> 3,
                 minutes |-> 2]

InitGoalies ==
    /\ games = [g \in {1} |-> NewGame(g)]
    /\ InitCalendar
    /\ position = [p \in Players |-> IF p = 1 THEN "forward" ELSE "goalie"]
    /\ nominations = Nominations({1}, Players)
    /\ lines = DefaultLines({1})
    /\ lineAssignments = {}
    /\ goals = {FirstGoal}
    /\ goalSeq = 1
    /\ penalties = {FirstPenalty}
    /\ penaltySeq = 1
    /\ playerStats = recompute_game(1, EmptyStats, games, goals, penalties,
                                    lineAssignments, position)
    /\ last = Idle
    /\ InitTables

GoalieLines == {l \in lines : l.line_number = 0}

NextGoalies ==
    \/ \E l \in GoalieLines, slot \in {"G", "LW"}, p \in Players \cup {None} :
          SaveLineAssignment(l, slot, p)
    \/ \E la \in lineAssignments : DeleteLineAssignment(la)
    \/ \E p \in Players, pos \in {"forward", "goalie"} : EditPosition(p, pos)
    \/ \E g \in GameIds, sh, sa \in 0..MaxScore : SaveGameScore(g, sh, sa)
    \/ \E old \in goals : DeleteGoal(old)
    \/ \E old \in penalties : DeletePenalty(old)
    \/ \E g \in GameIds : RecomputeSelected(g)

SpecGoalies == InitGoalies /\ [][NextGoalies]_vars

\* one game without events: the lineup of the home side under single saves,
\* formset submissions, deletions and position edits
InitLineup == Fixture({1}, Players)

SlotInputs == {"LW", "C", "G"}

\* the lines of the home side
HomeLines == {l \in lines : l.team = games[l.game].home_team}

NextLineup ==
    \/ \E l \in HomeLines, slot \in SlotInputs, p \in Players \cup {None} :
          SaveLineAssignment(l, slot, p)
    \/ \E l \in HomeLines, choice \in [1..MaxForms -> Players \cup {None}] :
          SubmitLineFormset(l, choice)
    \/ \E la \in lineAssignments : DeleteLineAssignment(la)
    \/ \E p \in Players, pos \in {"forward", "goalie"} : EditPosition(p, pos)

SpecLineup == InitLineup /\ [][NextLineup]_vars

\* Goal and Penalty objects as the forms build them (the id is not validated)
GoalInputs ==
    [game : GameIds, team : Teams, scorer : Players,
     assist_1 : Players \cup {None}, assist_2 : Players \cup {None}]

PenaltyInputs ==
    [game : GameIds, team : Teams, penalized_player : Players,
     minutes : MinutesInputs]

NominationInputs == [game : GameIds, player : Players, team : Teams]

LineInputs == [game : GameIds, team : Teams, line_number : 0..MaxLine]

\* one game with a goal and a penalty on record: nominations come and go
\* while Goal and Penalty objects are validated
NextNominated ==
    \/ \E n \in NominationInputs : AddNomination(n.game, n.player, n.team)
    \/ \E n \in nominations : DeleteNomination(n)
    \/ \E e \in GoalInputs : ValidateGoal(e)
    \/ \E e \in PenaltyInputs : ValidatePenalty(e)

SpecNominated == InitGoalies /\ [][NextNominated]_vars

\* one game, either of the two, only player 1 nominated: objects of the four
\* models are validated and saved with every team
InitTeams == \E g \in GameIds : Fixture({g}, {1})

\* the inputs of this specification vary the team and the player only
SoloGoals == {e \in GoalInputs : e.assist_1 = None /\ e.assist_2 = None}

MinorPenalties == {e \in PenaltyInputs : e.minutes = 2}

NextTeams ==
    \/ \E e \in SoloGoals : ValidateGoal(e)
    \/ \E e \in MinorPenalties : ValidatePenalty(e)
    \/ \E l \in LineInputs : ValidateLine(l)
    \/ \E n \in NominationInputs : ValidateNomination(n)
    \/ \E e \in SoloGoals :
          CreateGoal(e.game, e.team, e.scorer, e.assist_1, e.assist_2)
    \/ \E e \in MinorPenalties :
          CreatePenalty(e.game, e.team, e.penalized_player, e.minutes)
    \/ \E l \in LineInputs : SaveLine(l.game, l.team, l.line_number)
    \/ \E n \in NominationInputs : AddNomination(n.game, n.player, n.team)

SpecTeams == InitTeams /\ [][NextTeams]_vars

----------------------------------------------------------------------------
(* What the event rows of a game say about a player *)

GoalsScored(p, g) == Cardinality({x \in goals : x.game = g /\ x.scorer = p})

AssistsGiven(p, g) ==
    Cardinality({x \in goals : x.game = g /\ x.assist_1 = p})
      + Cardinality({x \in goals : x.game = g /\ x.assist_2 = p})

MinutesServed(p, g) ==
    SumMinutes({x \in penalties : x.game = g /\ x.penalized_player = p})

HasEvent(p, g) ==
    \/ \E x \in goals : x.game = g /\ p \in {x.scorer, x.assist_1, x.assist_2}
    \/ \E x \in penalties : x.game = g /\ x.penalized_player = p

HasRow(p, g) == <<p, g>> \in DOMAIN playerStats

StatsMatchEvents(g) ==
    \A p \in Players :
        /\ HasEvent(p, g) => HasRow(p, g)
        /\ HasRow(p, g) =>
              /\ playerStats[<<p, g>>].goals = GoalsScored(p, g)
              /\ playerStats[<<p, g>>].assists = AssistsGiven(p, g)
              /\ playerStats[<<p, g>>].penalty_minutes = MinutesServed(p, g)

\* C1: after recompute_game(game) every row of the game carries the goals,
\* the assists (assist_1 plus assist_2) and the summed penalty minutes of the
\* game's Goal and Penalty rows, and every player with such an event has a row.
C1_RecomputeMatchesEvents ==
    \A g \in DOMAIN games : Recomputed(g) => StatsMatchEvents(g)

\* one player scored twice, another assisted once as assist_1 and once as
\* assist_2, and a player served two penalties
C1_Witness ==
    /\ Recomputed(1)
    /\ \E a, b \in Players :
          /\ a # b
          /\ HasRow(a, 1) /\ playerStats[<<a, 1>>].goals = 2
          /\ HasRow(b, 1) /\ playerStats[<<b, 1>>].assists = 2
          /\ \E x, y \in goals : x.assist_1 = b /\ y.assist_2 = b
    /\ \E p \in Players : HasRow(p, 1) /\ playerStats[<<p, 1>>].penalty_minutes = 7

\* C2: after recompute_game(game) every row of the game has
\* points = goals + assists.
C2_PointsAreGoalsPlusAssists ==
    \A g \in DOMAIN games : Recomputed(g) =>
        \A k \in DOMAIN playerStats : k[2] = g =>
            playerStats[k].points = playerStats[k].goals + playerStats[k].assists

\* a row of a player who scored and assisted, a row of one who only
\* assisted, or a row left over from removed events
C2_Witness ==
    /\ Recomputed(1)
    /\ \E p \in Players : HasRow(p, 1) /\ ~HasEvent(p, 1)
    /\ \E p \in Players :
          /\ HasRow(p, 1)
          /\ playerStats[<<p, 1>>].goals > 0
          /\ playerStats[<<p, 1>>].assists > 0
          /\ playerStats[<<p, 1>>].points = 2

\* C4: recompute_game called again directly after a recompute of the same
\* game (no row changed in between) leaves the PlayerStats rows as they are.
C4_RecomputeIdempotent ==
    [][last'.again => playerStats' = playerStats]_vars

\* the second of two successive recomputes, on a game with goals and assists
C4_Witness ==
    /\ last.again
    /\ \E p \in Players : HasRow(p, last.game) /\ playerStats[<<p, last.game>>].assists > 0
    /\ \E p \in Players : HasRow(p, last.game) /\ playerStats[<<p, last.game>>].goals > 0

\* C6: after any sequence of Goal and Penalty creates, updates and deletes,
\* each followed by its handler, the rows of every game match its events.
C6_AlwaysInSync ==
    \A g \in DOMAIN games : StatsMatchEvents(g)

----------------------------------------------------------------------------
(* Goalies *)

GoalieSlots(g) ==
    {la \in lineAssignments :
        la.line.game = g /\ la.line.line_number = 0 /\ la.slot = "G"}

\* the line-0 slot-G rows held by p as a goalie
GoalieSlotsOf(p, g) ==
    {la \in GoalieSlots(g) : la.player = p /\ position[p] = "goalie"}

OpposingScore(la) ==
    IF la.line.team = games[la.line.game].home_team
    THEN games[la.line.game].score_away
    ELSE games[la.line.game].score_home

GoalsAgainstMatch(g) ==
    \A p \in Players :
        /\ \A la \in GoalieSlotsOf(p, g) :
              HasRow(p, g) /\ playerStats[<<p, g>>].goals_against = OpposingScore(la)
        /\ (GoalieSlotsOf(p, g) = {} /\ HasRow(p, g)) =>
              playerStats[<<p, g>>].goals_against = 0

\* C3: after recompute_game(game) every goalie in slot G of a line-0 Line has
\* goals_against equal to the stored score of the opposing team, and every
\* other row of the game has goals_against = 0.
C3_GoalsAgainstFromOpposingScore ==
    \A g \in DOMAIN games : Recomputed(g) => GoalsAgainstMatch(g)

\* the away goalie concedes the home score, the scores differ, and the slot G
\* of the home side is held by a player who is no goalie and has a row
C3_Witness ==
    /\ Recomputed(1)
    /\ games[1].score_home = 2 /\ games[1].score_away = 1
    /\ \E la \in GoalieSlotsOf(3, 1) : playerStats[<<3, 1>>].goals_against = 2
    /\ \E la \in GoalieSlots(1) :
          /\ la.player # None /\ position[la.player] # "goalie"
          /\ HasRow(la.player, 1)
    /\ \E p \in Players : HasRow(p, 1) /\ playerStats[<<p, 1>>].goals > 0

NoEvents(g) ==
    /\ ~\E x \in goals : x.game = g
    /\ ~\E x \in penalties : x.game = g

----------------------------------------------------------------------------
(* Lineup rules *)

\* C7: no player has two LineAssignment rows in lines of the same game.
C7_OneAssignmentPerGame ==
    \A a, b \in lineAssignments :
        (a.player # None /\ a.player = b.player /\ a.line.game = b.line.game)
            => a = b

\* C9: every LineAssignment in a line with line_number 0 has slot G and its
\* player, if set, has position goalie.
C9_GoalieLineHoldsGoalies ==
    \A la \in lineAssignments : la.line.line_number = 0 =>
        /\ la.slot = "G"
        /\ (la.player # None => position[la.player] = "goalie")


----------------------------------------------------------------------------
(* Validation of event players and of teams *)

EventPlayers(op, e) ==
    IF op = "goal_clean" THEN {e.scorer, e.assist_1, e.assist_2} \ {None}
    ELSE {e.penalized_player}

EventCleans == {"goal_clean", "penalty_clean"}

Stored(op, e) ==
    IF op = "goal_clean"
    THEN \E s \in goals : [f \in DOMAIN e |-> s[f]] = e
    ELSE \E s \in penalties : [f \in DOMAIN e |-> s[f]] = e

\* C8: Goal.clean and Penalty.clean accept an event only if every player it
\* references belongs to the event's team and is nominated for the event's
\* game; a stored event one of whose players has lost the nomination is
\* rejected when validated again.
C8_AcceptedOnlyIfNominated ==
    last.op \in EventCleans =>
        /\ last.err = "ok" =>
              \A p \in EventPlayers(last.op, last.arg) :
                  PlayerTeam(p) = last.arg.team /\ Nominated(last.arg.game, p)
        /\ (/\ Stored(last.op, last.arg)
            /\ \E p \in EventPlayers(last.op, last.arg) :
                  ~Nominated(last.arg.game, p)) => last.err # "ok"

\* the stored goal of player 1, assisted by player 2, is validated again
\* after player 2's nomination was deleted, and is rejected
C8_Witness ==
    /\ last.op = "goal_clean"
    /\ Stored("goal_clean", last.arg)
    /\ last.arg.assist_1 = 2
    /\ Nominated(1, 1) /\ ~Nominated(1, 2)
    /\ last.err = "nomination"

CleanOps == {"goal_clean", "penalty_clean", "line_clean", "nomination_clean"}

\* C10: clean() of Line, Goal, Penalty and GameNomination raises whenever the
\* object's team is neither home_team nor away_team of its game and raises no
\* team error otherwise; no stored row of the four tables has a
\* non-participant team.
C10_TeamMustParticipate ==
    /\ last.op \in CleanOps =>
          /\ last.arg.team \notin Participants(last.arg.game) => last.err # "ok"
          /\ last.arg.team \in Participants(last.arg.game) => last.err # "team"
    /\ \A e \in goals \cup penalties \cup lines \cup nominations :
          e.team \in Participants(e.game)

\* game 2 (team 3 against team 1): a nomination of player 3 with team 2 is
\* rejected for its team while a goal, a penalty, a third line of the home
\* team and a second nomination have been written
C10_Witness ==
    /\ last.op = "nomination_clean"
    /\ last.arg.team \notin Participants(last.arg.game)
    /\ last.err = "team"
    /\ \E e \in goals : e.game = 2 /\ e.team = 1
    /\ \E e \in penalties : e.game = 2 /\ e.team = 1
    /\ [game |-> 2, team |-> 3, line_number |-> MaxLine] \in lines
    /\ Nominated(2, 2)

----------------------------------------------------------------------------
(* Assist conflicts *)

\* one game, every player nominated: goals are validated, saved and deleted
NextAssists ==
    \/ \E e \in GoalInputs : ValidateGoal(e)
    \/ \E e \in GoalInputs :
          CreateGoal(e.game, e.team, e.scorer, e.assist_1, e.assist_2)
    \/ \E e \in goals : DeleteGoal(e)

SpecAssists == InitStats /\ [][NextAssists]_vars

AssistConflict(e) ==
    \/ e.assist_1 # None /\ e.assist_1 = e.scorer
    \/ e.assist_2 # None /\ e.assist_2 = e.scorer
    \/ e.assist_2 # None /\ e.assist_2 = e.assist_1

\* C11: Goal.clean rejects every goal in which assist_1 equals the scorer,
\* assist_2 equals the scorer or assist_2 equals assist_1, so no stored goal
\* names one player twice.
C11_NoAssistConflict ==
    /\ last.op = "goal_clean" /\ AssistConflict(last.arg) => last.err # "ok"
    /\ \A e \in goals : ~AssistConflict(e)

\* a goal of player 1 with player 2 in both assist slots is rejected for the
\* second assist while a goal with player 2 as the only assistant is stored
C11_Witness ==
    /\ last.op = "goal_clean"
    /\ last.arg.scorer = 1 /\ last.arg.assist_1 = 2 /\ last.arg.assist_2 = 2
    /\ last.err = "assist_2"
    /\ \E e \in goals : e.scorer = 1 /\ e.assist_1 = None /\ e.assist_2 = 2

----------------------------------------------------------------------------
(* Games: validation *)

\* Game objects as a form builds them
GameInputs ==
    [home_team : Teams, away_team : Teams, score_home : {0}, score_away : {0},
     competition : GameCompetition, league : Leagues \cup {None},
     tournament : Tournaments \cup {None}, starts_at : Days, stadium : {None}]

\* game.full_clean() on a Game object; nothing is written
ValidateGame(gm) ==
    /\ last' = [Done("game_clean", None) EXCEPT !.err = Game_error(gm),
                                                 !.arg = gm]
    /\ UNCHANGED <<cache, evicted, runs, cleaned, txn, gameSeq, stadiums, teamEvents,
                   eventSeq, statRows, rowSeq, workers, teams, leagues,
                   games, position, nominations, lines, lineAssignments,
                   goals, goalSeq, penalties, penaltySeq, playerStats>>

\* the competition linkage of a game is exclusive
ExclusiveLinkage(gm) ==
    \/ gm.competition = "league" /\ gm.league # None /\ gm.tournament = None
    \/ gm.competition = "tournament" /\ gm.tournament # None /\ gm.league = None
    \/ gm.competition = "friendly" /\ gm.league = None /\ gm.tournament = None

\* C12: Game.clean accepts a game only if its teams differ and a league game
\* has a league and no tournament, a tournament game a tournament and no
\* league, and a friendly game neither.
C12_GameCleanExclusive ==
    last.op = "game_clean" /\ last.err = "ok" =>
        /\ last.arg.home_team # last.arg.away_team
        /\ ExclusiveLinkage(last.arg)

\* a league game of teams 1 and 2 in their league, inside its season, passes
C12_Witness ==
    /\ last.op = "game_clean"
    /\ last.err = "ok"
    /\ last.arg.competition = "league"
    /\ last.arg.league = 1
    /\ last.arg.home_team = 1 /\ last.arg.away_team = 2

\* Game objects of every shape are validated against the stored leagues
NextGameClean == \E gm \in GameInputs : ValidateGame(gm)

SpecGameClean == Fixture({1}, {1}) /\ [][NextGameClean]_vars

----------------------------------------------------------------------------
(* PlayerStats.objects.get_or_create under concurrent recomputes: the table *)
(* as a set of rows with their own ids, so that two rows of one            *)
(* (player, game) pair can be told apart                                   *)

RowsOf(p, g) == {r \in statRows : r.player = p /\ r.game = g}

\* the table has no unique constraint
unique_violation_never(p, g) == FALSE

\* UniqueConstraint(fields=["player", "game"], name="uniq_player_game")
unique_violation(p, g) == RowsOf(p, g) # {}

\* a recompute_game call reaches get_or_create(player=p, game=g)
BeginGetOrCreate(w, p, g) ==
    /\ workers[w].pc = "idle"
    /\ g \in DOMAIN games
    /\ workers' = [workers EXCEPT ![w] = [pc |-> "get", player |-> p, game |-> g]]
    /\ last' = Done("get_or_create", g)
    /\ UNCHANGED <<cache, evicted, runs, cleaned, txn, gameSeq, stadiums, teamEvents,
                   eventSeq, teams, leagues, games, position, nominations,
                   lines, lineAssignments, goals, goalSeq, penalties,
                   penaltySeq, playerStats, statRows, rowSeq>>

\* get_or_create: the SELECT; a found row is returned, otherwise INSERT follows
GetRow(w) ==
    /\ workers[w].pc \in {"get", "get_again"}
    /\ workers' = [workers EXCEPT ![w] =
           IF RowsOf(workers[w].player, workers[w].game) # {} THEN IdleWorker
           ELSE [@ EXCEPT !.pc = "create"]]
    /\ UNCHANGED <<cache, evicted, runs, cleaned, txn, gameSeq, stadiums, teamEvents,
                   eventSeq, teams, leagues, games, position, nominations,
                   lines, lineAssignments, goals, goalSeq, penalties,
                   penaltySeq, playerStats, statRows, rowSeq, last>>

\* get_or_create: the INSERT; on IntegrityError the row is selected again
CreateRow(w) ==
    /\ workers[w].pc = "create"
    /\ rowSeq < MaxRows
    /\ IF unique_violation(workers[w].player, workers[w].game)
       THEN /\ workers' = [workers EXCEPT ![w].pc = "get_again"]
            /\ UNCHANGED <<cache, evicted, runs, cleaned, txn, gameSeq, stadiums, teamEvents,
                           eventSeq, statRows, rowSeq>>
       ELSE /\ statRows' = statRows \cup
                   {[id |-> rowSeq + 1, player |-> workers[w].player,
                     game |-> workers[w].game]}
            /\ rowSeq' = rowSeq + 1
            /\ workers' = [workers EXCEPT ![w] = IdleWorker]
    /\ UNCHANGED <<cache, evicted, runs, cleaned, txn, gameSeq, stadiums, teamEvents,
                   eventSeq, teams, leagues, games, position, nominations,
                   lines, lineAssignments, goals, goalSeq, penalties,
                   penaltySeq, playerStats, last>>

NextGetOrCreate ==
    \/ \E w \in Workers, p \in Players, g \in GameIds : BeginGetOrCreate(w, p, g)
    \/ \E w \in Workers : GetRow(w)
    \/ \E w \in Workers : CreateRow(w)

SpecGetOrCreate == Fixture({1}, Players) /\ [][NextGetOrCreate]_vars

\* C13: whatever the interleaving of recompute_game calls, there is at most
\* one PlayerStats row per (player, game) pair.
C13_OneRowPerPlayerGame ==
    \A p \in Players, g \in GameIds : Cardinality(RowsOf(p, g)) <= 1

\* two callers both found no row of player 1 in game 1; one has inserted it
\* and the other is about to insert
C13_Witness ==
    /\ RowsOf(1, 1) # {}
    /\ \E w \in Workers :
          workers[w] = [pc |-> "create", player |-> 1, game |-> 1]

----------------------------------------------------------------------------
(* recompute_game raising inside a signal handler *)

\* one game, player 1 nominated: every triggering write happens with a
\* recompute_game that returns and with one that raises
NextFailures ==
    \/ \E e \in SoloGoals, raises \in BOOLEAN :
          GoalSaved(e.game, e.team, e.scorer, e.assist_1, e.assist_2, raises)
    \/ \E old \in goals, raises \in BOOLEAN : GoalDeleted(old, raises)
    \/ \E e \in MinorPenalties, raises \in BOOLEAN :
          PenaltySaved(e.game, e.team, e.penalized_player, e.minutes, raises)
    \/ \E old \in penalties, raises \in BOOLEAN : PenaltyDeleted(old, raises)
    \/ \E l \in GoalieLines, p \in Players, raises \in BOOLEAN :
          LineAssignmentSaved(l, "G", p, raises)
    \/ \E la \in lineAssignments, raises \in BOOLEAN :
          LineAssignmentDeleted(la, raises)
    \/ \E g \in GameIds, sa \in 0..MaxScore, raises \in BOOLEAN :
          GameScoreSaved(g, games[g].score_home, sa, raises)

SpecFailures == Fixture({1}, {1}) /\ [][NextFailures]_vars

\* C14: a failure raised inside recompute_game is never caught by the handler
\* that called it: the caller of the triggering write sees the exception.
C14_FailurePropagates == last.failed => last.err # "ok"

----------------------------------------------------------------------------
(* sync_results: the fetched payload *)

\* a JSON value that may be null: <<>> is null, <<v>> is the value v
Null == <<>>

\* teams_by_id as fetched: the first name differs from a stored team in case
\* only, the last one is not stored
ExtTeams == <<"A", "b", "c", "d">>

\* key = ext_name.lower()
Lower(name) == IF name = "A" THEN "a" ELSE name

\* m.get("home_score") or 0
score_or_zero(v) == IF v = Null \/ v[1] = 0 THEN 0 ELSE v[1]

\* the tables the command reads and writes, as one record; on_commit holds
\* the games whose recompute the post_save handler has registered, raised
\* says that the command ended with an exception
Tables ==
    [games |-> games, gameSeq |-> gameSeq, teams |-> teams,
     leagues |-> leagues, stadiums |-> stadiums, teamEvents |-> teamEvents,
     eventSeq |-> eventSeq, goals |-> goals, playerStats |-> playerStats,
     on_commit |-> {}, raised |-> FALSE]

\* get_team: int(ext_id) raises TypeError for a match whose team id is null;
\* a match whose date does not parse is skipped before the teams are resolved
match_raises(m) ==
    /\ m.match_date # Null
    /\ (m.home_team_id = None \/ m.away_team_id = None)

\* team_cache_by_name.get(key)
TeamByName(S, ext_id) ==
    {t \in DOMAIN S.teams : Lower(S.teams[t].name) = Lower(ExtTeams[ext_id])}

\* get_team: the id of the team that the call returns
team_id(S, ext_id) ==
    IF TeamByName(S, ext_id) = {} THEN Cardinality(DOMAIN S.teams) + 1
    ELSE CHOOSE t \in TeamByName(S, ext_id) : TRUE

\* get_team: a missing team is created in the target league, dry run or
\* not; a stored team of another league is moved unless the run is dry
get_team(S, ext_id, league, dry) ==
    IF TeamByName(S, ext_id) = {}
    THEN [S EXCEPT !.teams = @ @@ (team_id(S, ext_id) :>
                     [name |-> ExtTeams[ext_id], league |-> league])]
    ELSE IF S.teams[team_id(S, ext_id)].league # league /\ ~dry
         THEN [S EXCEPT !.teams[team_id(S, ext_id)].league = league]
         ELSE S

\* get_stadium: a missing stadium is created unless the run is dry (stadiums
\* are known by their name, a number here)
get_stadium(S, venue, dry) ==
    IF venue = Null \/ venue[1] \in S.stadiums \/ dry THEN S
    ELSE [S EXCEPT !.stadiums = @ \cup {venue[1]}]

stadium_of(venue) == IF venue = Null THEN None ELSE venue[1]


\* the Game row that the lookups of update_or_create select
GameByKey(S, league, starts_at, home, away) ==
    {g \in DOMAIN S.games :
        /\ S.games[g].competition = "league"
        /\ S.games[g].league = league
        /\ S.games[g].starts_at = starts_at
        /\ S.games[g].home_team = home
        /\ S.games[g].away_team = away}

\* order_by("-period", "-second_in_period", "-id"): a comes before b
newer(a, b) ==
    \/ a.period > b.period
    \/ a.period = b.period /\ a.second_in_period > b.second_in_period
    \/ /\ a.period = b.period /\ a.second_in_period = b.second_in_period
       /\ a.id > b.id

\* prune_goals_to_score._delete_excess: ids = goals_qs[:extra] of the queryset
\* ordered newest first, the rows that Goal.objects.filter(id__in=ids) deletes
excess_goals(G, g, team, target) ==
    LET mine == {e \in G : e.game = g /\ e.team = team}
    IN  {e \in mine :
            Cardinality({o \in mine : newer(o, e)}) <
                Cardinality(mine) - target}

\* no goal is deleted
prune_goals_skipped(G, g, gm) == G

\* prune_goals_to_score
prune_goals_to_score(G, g, gm) ==
    (G \ excess_goals(G, g, gm.home_team, gm.score_home))
       \ excess_goals(G, g, gm.away_team, gm.score_away)

\* Game.save of the upsert and what follows it: the post_save handler brings
\* the calendar event up to date, then the goals are pruned to the score
\* and the statistics recomputed
game_upserted(S, g, gm) ==
    LET ev == sync_event_for_game(S.teamEvents, S.eventSeq, g, gm, S.teams)
        GM == IF g \in DOMAIN S.games THEN [S.games EXCEPT ![g] = gm]
              ELSE S.games @@ (g :> gm)
        G  == prune_goals_to_score(S.goals, g, gm)
    IN  [S EXCEPT !.games = GM,
                  !.gameSeq = IF g > @ THEN g ELSE @,
                  !.teamEvents = ev.events,
                  !.eventSeq = ev.seq,
                  !.goals = G,
                  !.playerStats = recompute_game(g, S.playerStats, GM, G,
                                      penalties, lineAssignments, position),
                  !.on_commit = @ \cup {g}]

\* update_or_create inserts a row without looking for the key
upsert_always_inserts(S, m, league, home, away) ==
    game_upserted(S, S.gameSeq + 1,
        [home_team |-> home, away_team |-> away,
         score_home |-> score_or_zero(m.home_score),
         score_away |-> score_or_zero(m.away_score),
         competition |-> "league", league |-> league, tournament |-> None,
         starts_at |-> m.match_date[1], stadium |-> stadium_of(m.venue)])

\* Game.objects.update_or_create(defaults=defaults, **lookups)
upsert(S, m, league, home, away) ==
    LET found == GameByKey(S, league, m.match_date[1], home, away)
    IN  IF found = {}
        THEN game_upserted(S, S.gameSeq + 1,
                [home_team |-> home, away_team |-> away,
                 score_home |-> score_or_zero(m.home_score),
                 score_away |-> score_or_zero(m.away_score),
                 competition |-> "league", league |-> league,
                 tournament |-> None,
                 starts_at |-> m.match_date[1],
                 stadium |-> stadium_of(m.venue)])
        ELSE LET g == CHOOSE x \in found : TRUE
             IN  game_upserted(S, g,
                    [S.games[g] EXCEPT
                        !.score_home = score_or_zero(m.home_score),
                        !.score_away = score_or_zero(m.away_score),
                        !.stadium = stadium_of(m.venue)])

\* _sync, the body of the loop for one match; a match whose date does not
\* parse is skipped, a dry run stops before the upsert
sync_match(S, m, league, dry) ==
    IF m.match_date = Null THEN S
    ELSE CHOOSE R \in UNION
           {{IF dry THEN S3
             ELSE upsert(S3, m, league, team_id(S, m.home_team_id),
                         team_id(S1, m.away_team_id)) :
                S3 \in {get_stadium(get_team(S1, m.away_team_id, league, dry),
                                    m.venue, dry)}} :
             S1 \in {get_team(S, m.home_team_id, league, dry)}} : TRUE

\* _sync: the matches in the order fetched
RECURSIVE sync_matches(_, _, _, _, _)
sync_matches(S, matches, i, league, dry) ==
    IF i > Len(matches) THEN S
    ELSE CHOOSE R \in {sync_matches(T, matches, i + 1, league, dry) :
                          T \in {sync_match(S, matches[i], league, dry)}} : TRUE


\* the dates of the matches whose match_date parses
MatchDates(matches) ==
    {matches[i].match_date[1] :
        i \in {j \in 1..Len(matches) : matches[j].match_date # Null}}

Min(D) == CHOOSE d \in D : \A e \in D : d <= e

Max(D) == CHOOSE d \in D : \A e \in D : d >= e

\* the new range is laid around the matches alone
expanded_around_matches(lg, D) ==
    [date_start |-> Min(D) - 1, date_end |-> Max(D) + 1]

\* _maybe_expand_league_dates: the new range, one day wider on both sides
expanded(lg, D) ==
    [date_start |-> Min(D \cup {lg.date_start}) - 1,
     date_end |-> Max(D \cup {lg.date_end}) + 1]

\* _maybe_expand_league_dates
maybe_expand_league_dates(L, league, matches, expand, dry) ==
    LET D == MatchDates(matches)
    IN  IF matches = <<>> \/ ~expand \/ D = {} THEN L
        ELSE IF /\ L[league].date_start <= Min(D) /\ Min(D) <= L[league].date_end
                /\ L[league].date_start <= Max(D) /\ Max(D) <= L[league].date_end
             THEN L
        ELSE IF dry THEN L
        ELSE [L EXCEPT ![league] = expanded(@, D)]

\* the recomputes registered with transaction.on_commit, run at the commit
RECURSIVE run_on_commit(_, _, _, _)
run_on_commit(st, GM, G, todo) ==
    IF todo = {} THEN st
    ELSE LET g == CHOOSE x \in todo : \A y \in todo : x <= y
         IN  run_on_commit(recompute_game(g, st, GM, G, penalties,
                                          lineAssignments, position),
                           GM, G, todo \ {g})

\* Command.handle with --league-id: the league range is widened first, then
\* the matches are synchronised in one transaction
\* when a match raises, the exception leaves _sync through
\* @transaction.atomic: what _sync wrote is rolled back, what was saved before
\* _sync was called stays
handle(league, matches, dry, expand) ==
    LET S0 == [Tables EXCEPT !.leagues = maybe_expand_league_dates(
                                 leagues, league, matches, expand, dry)]
        S  == sync_matches(S0, matches, 1, league, dry)
    IN  IF \E i \in 1..Len(matches) : match_raises(matches[i])
        THEN [S0 EXCEPT !.raised = TRUE]
        ELSE [S EXCEPT !.playerStats =
                          run_on_commit(@, S.games, S.goals, S.on_commit)]

\* python manage.py sync_results --league-id ... [--dry-run]
SyncResults(league, matches, dry, expand) ==
    \E S \in {handle(league, matches, dry, expand)} :
        /\ league \in DOMAIN leagues
        /\ S.gameSeq <= MaxGames
        /\ games' = S.games
        /\ gameSeq' = S.gameSeq
        /\ teams' = S.teams
        /\ leagues' = S.leagues
        /\ stadiums' = S.stadiums
        /\ teamEvents' = S.teamEvents
        /\ eventSeq' = S.eventSeq
        /\ goals' = S.goals
        /\ playerStats' = S.playerStats
        /\ last' = [Done("sync_results", None) EXCEPT
                       !.arg = [league |-> league, matches |-> matches,
                                dry |-> dry, expand |-> expand],
                       !.failed = S.raised,
                       !.err = IF S.raised THEN "raised" ELSE "ok"]
        /\ UNCHANGED <<runs, cleaned, txn, position, nominations, lines,
                       lineAssignments, goalSeq, penalties, penaltySeq,
                       statRows, rowSeq, workers>>
        /\ Invalidate(~S.raised, ascending(S.on_commit))

\* a fetched match
Match(home, away, hs, as, date, venue) ==
    [home_team_id |-> home, away_team_id |-> away, home_score |-> hs,
     away_score |-> as, match_date |-> date, venue |-> venue]

\* the batches of at most n matches of M
RECURSIVE Batches(_, _)
Batches(M, n) ==
    IF n = 0 THEN {<<>>}
    ELSE Batches(M, n - 1) \cup
         {Append(b, m) : b \in {x \in Batches(M, n - 1) : Len(x) = n - 1},
                         m \in M}

\* the matches of one day: team "A" against "b" with no venue and team "c"
\* against the unknown "d" in stadium 1, scheduled (no scores), finished 2:1
\* or finished 0:1
ScoreMatches ==
    {Match(p[1], p[2], sc[1], sc[2], <<2>>, p[3]) :
        p \in {<<1, 2, Null>>, <<3, 4, <<1>>>>},
        sc \in {<<Null, Null>>, <<<<2>>, <<1>>>>, <<<<0>>, <<1>>>>}}

\* the command runs again and again, for league 1, with batches that repeat
\* matches and bring new scores
NextSync ==
    \E matches \in Batches(ScoreMatches, MaxMatches) :
        SyncResults(1, matches, FALSE, TRUE)

SpecSync == Fixture({1}, {1}) /\ [][NextSync]_vars

----------------------------------------------------------------------------
(* sync_results as an upsert *)

LeagueKey(gm) == <<gm.league, gm.starts_at, gm.home_team, gm.away_team>>

\* the Game rows that a fetched match is stored as
GamesOfMatch(m, league) ==
    {g \in DOMAIN games :
        /\ games[g].competition = "league"
        /\ games[g].league = league
        /\ games[g].starts_at = m.match_date[1]
        /\ games[g].home_team \in TeamByName(Tables, m.home_team_id)
        /\ games[g].away_team \in TeamByName(Tables, m.away_team_id)}

SameKey(m, n) ==
    /\ m.home_team_id = n.home_team_id
    /\ m.away_team_id = n.away_team_id
    /\ m.match_date = n.match_date

Fetched(v) == IF v = Null THEN 0 ELSE v[1]

\* C15: sync_results is an upsert keyed by (LEAGUE, league, starts_at,
\* home_team, away_team): no two league games share a key, after a run every
\* fetched match is stored as exactly one Game, and that Game carries the
\* scores fetched last for its key, a missing score being stored as 0.
C15_SyncIsUpsert ==
    /\ \A g, h \in DOMAIN games :
          (/\ games[g].competition = "league"
           /\ games[h].competition = "league"
           /\ LeagueKey(games[g]) = LeagueKey(games[h])) => g = h
    /\ last.op = "sync_results" /\ ~last.arg.dry =>
          \A i \in 1..Len(last.arg.matches) :
              LET m == last.arg.matches[i]
              IN  m.match_date # Null =>
                    /\ Cardinality(GamesOfMatch(m, last.arg.league)) = 1
                    /\ (\A j \in (i + 1)..Len(last.arg.matches) :
                           ~SameKey(m, last.arg.matches[j])) =>
                         \A g \in GamesOfMatch(m, last.arg.league) :
                            /\ games[g].score_home = Fetched(m.home_score)
                            /\ games[g].score_away = Fetched(m.away_score)

\* one run fetched the same match twice, first scheduled and then finished
\* 2:1; a single Game, the first one the command ever created, holds 2:1
C15_Witness ==
    /\ last.op = "sync_results"
    /\ last.arg.matches = <<Match(1, 2, Null, Null, <<2>>, Null),
                            Match(1, 2, <<2>>, <<1>>, <<2>>, Null)>>
    /\ gameSeq = Cardinality(GameIds) + 1
    /\ games[gameSeq].score_home = 2 /\ games[gameSeq].score_away = 1

----------------------------------------------------------------------------
(* sync_results --dry-run *)

\* a scheduled match of stored teams inside the season, a finished match of
\* the team of league 2 and an unknown team, in stadium 1 after the season,
\* and a match without a date
VariedMatches ==
    {Match(1, 2, Null, Null, <<2>>, Null),
     Match(3, 4, <<2>>, <<1>>, <<4>>, <<1>>),
     Match(1, 2, Null, Null, Null, Null)}

\* the command runs for league 1, dry or not
NextDryRun ==
    \E matches \in Batches(VariedMatches, MaxMatches), dry \in BOOLEAN :
        SyncResults(1, matches, dry, TRUE)

SpecDryRun == Fixture({1}, {1}) /\ [][NextDryRun]_vars

\* C16: a run with --dry-run leaves every table as it was.
C16_DryRunWritesNothing ==
    [][(last'.op = "sync_results" /\ last'.arg.dry) =>
          UNCHANGED <<games, gameSeq, teams, leagues, stadiums, teamEvents,
                      eventSeq, goals, goalSeq, playerStats>>]_vars

----------------------------------------------------------------------------
(* sync_results: the league season is widened to the fetched matches *)

\* scheduled matches of the stored teams "A" and "b": before, inside and
\* after the season of league 1, and one without a date
DatedMatches ==
    {Match(1, 2, Null, Null, d, Null) : d \in {Null, <<1>>, <<2>>, <<4>>}}

\* the command runs for either league, with and without the expansion
NextExpand ==
    \E league \in Leagues, matches \in Batches(DatedMatches, MaxMatches),
       expand \in BOOLEAN :
        SyncResults(league, matches, FALSE, expand)

SpecExpand == Fixture({1}, {1}) /\ [][NextExpand]_vars

\* C17: after a run that is not dry and expands the league dates, the range
\* of the target league contains the date of every fetched match whose date
\* parses, and the range has not shrunk.
C17_LeagueRangeCoversMatches ==
    [][(last'.op = "sync_results" /\ ~last'.arg.dry /\ last'.arg.expand) =>
          /\ \A d \in MatchDates(last'.arg.matches) :
                /\ leagues'[last'.arg.league].date_start <= d
                /\ d <= leagues'[last'.arg.league].date_end
          /\ leagues'[last'.arg.league].date_start
                <= leagues[last'.arg.league].date_start
          /\ leagues'[last'.arg.league].date_end
                >= leagues[last'.arg.league].date_end]_vars

\* league 1 ran over days 2..3; a run fetched matches of day 1 and day 4 and
\* the season now runs over days 0..5
C17_Witness ==
    /\ last.op = "sync_results"
    /\ ~last.arg.dry /\ last.arg.expand
    /\ last.arg.league = 1
    /\ MatchDates(last.arg.matches) = {1, 4}
    /\ leagues[1] = [date_start |-> 0, date_end |-> 5]

----------------------------------------------------------------------------
(* Games and their calendar events *)

\* the fields of the unique constraint that applies to the competition of gm
unique_key(gm) ==
    <<gm.competition,
      IF gm.competition = "league" THEN gm.league
      ELSE IF gm.competition = "tournament" THEN gm.tournament ELSE None,
      gm.starts_at, gm.home_team, gm.away_team>>

\* uniq_game_league, uniq_game_tournament, uniq_game_friendly
unique_game_violation(GM, g, gm) ==
    \E h \in DOMAIN GM \ {g} : unique_key(GM[h]) = unique_key(gm)

\* StadiumAdmin: a stadium is added
CreateStadium(s) ==
    /\ s \notin stadiums
    /\ stadiums' = stadiums \cup {s}
    /\ last' = Done("stadium_save", None)
    /\ UNCHANGED <<cache, evicted, runs, cleaned, txn, games, gameSeq, teamEvents, eventSeq,
                   statRows, rowSeq, workers, teams, leagues, position,
                   nominations, lines, lineAssignments, goals, goalSeq,
                   penalties, penaltySeq, playerStats>>

\* Game.save() of the row g with the fields gm, a new row when g is the next
\* free id; post_save -> _game_saved_sync_event brings the calendar event up
\* to date and, as no update_fields are given, recompute_game runs at commit
GameSaved(g, gm) ==
    /\ g \in DOMAIN games \/ (g = gameSeq + 1 /\ g <= MaxGames)
    /\ gm.stadium \in stadiums \cup {None}
    /\ ~unique_game_violation(games, g, gm)
    /\ txn.open => Len(txn.on_commit) < MaxPending
    /\ games' = IF g \in DOMAIN games THEN [games EXCEPT ![g] = gm]
                ELSE games @@ (g :> gm)
    /\ gameSeq' = IF g \in DOMAIN games THEN gameSeq ELSE g
    /\ teamEvents' =
          sync_event_for_game(teamEvents, eventSeq, g, gm, teams).events
    /\ eventSeq' = sync_event_for_game(teamEvents, eventSeq, g, gm, teams).seq
    /\ playerStats' = IF txn.open THEN playerStats
                       ELSE recompute_game(g, playerStats, games', goals,
                                penalties, lineAssignments, position)
    /\ txn' = on_commit(txn, g, gm)
    /\ last' = Done("game_save", g)
    /\ UNCHANGED <<runs, cleaned, stadiums, statRows, rowSeq, workers, teams,
                   leagues, position, nominations, lines, lineAssignments,
                   goals, goalSeq, penalties, penaltySeq>>
    /\ Invalidate(~txn.open, <<g>>)

\* the collector of Game.delete(): TeamEvent.related_game is SET_NULL, and the
\* field update is executed before the rows are deleted
related_game_set_null(TE, g) ==
    {IF ev.related_game = g THEN [ev EXCEPT !.related_game = None] ELSE ev :
        ev \in TE}

\* _game_deleted_remove_event: TeamEvent.objects.filter(related_game=g).delete()
game_deleted_remove_event(TE, g) == TE \ EventsOf(TE, g)

\* Game.delete() of a game without goals, penalties and line assignments: the
\* collector nulls the references of the calendar, deletes the nominations,
\* lines and statistics rows with the game, then post_delete runs
\* _game_deleted_remove_event
DeleteGame(g) ==
    /\ g \in DOMAIN games
    /\ ~\E x \in goals \cup penalties : x.game = g
    /\ ~\E la \in lineAssignments : la.line.game = g
    /\ ~\E i \in DOMAIN txn.on_commit : txn.on_commit[i].game = g
    /\ games' = [h \in DOMAIN games \ {g} |-> games[h]]
    /\ nominations' = {n \in nominations : n.game # g}
    /\ lines' = {l \in lines : l.game # g}
    /\ playerStats' = [k \in {x \in DOMAIN playerStats : x[2] # g} |->
                          playerStats[k]]
    /\ teamEvents' =
          game_deleted_remove_event(related_game_set_null(teamEvents, g), g)
    /\ last' = [Done("game_delete", g) EXCEPT
                   !.arg = {ev.id : ev \in EventsOf(teamEvents, g)}]
    /\ UNCHANGED <<cache, evicted, runs, cleaned, txn, gameSeq, stadiums, eventSeq, statRows,
                   rowSeq, workers, teams, leagues, position,
                   lineAssignments, goals, goalSeq, penalties, penaltySeq>>

\* game 1 as GameAdmin can save it: on day 2 or 3, with or without the
\* stadium, as a friendly game or as a game of league 1
SavedGames(gm) ==
    {[gm EXCEPT !.starts_at = d, !.stadium = s,
                !.competition = c[1], !.league = c[2]] :
        d \in {2, 3}, s \in {None, 1},
        c \in {<<"friendly", None>>, <<"league", 1>>}}

NextGames ==
    \/ CreateStadium(1)
    \/ \E gm \in SavedGames(NewGame(1)) : GameSaved(gameSeq + 1, gm)
    \/ \E g \in DOMAIN games : \E gm \in SavedGames(games[g]) : GameSaved(g, gm)
    \/ \E g \in DOMAIN games, sa \in 0..1 :
          SaveGameScore(g, games[g].score_home, sa)
    \/ \E g \in DOMAIN games : DeleteGame(g)

SpecGames == Fixture({1}, {1}) /\ [][NextGames]_vars

\* the calendar holds exactly one event of the game g, and it shows the
\* start, the stadium and the title of the stored game
MirroredOnce(g) ==
    \E ev \in teamEvents :
        /\ EventsOf(teamEvents, g) = {ev}
        /\ ev.starts_at = games[g].starts_at
        /\ ev.stadium = games[g].stadium
        /\ ev.title = event_title_for(games[g], teams)

\* C18: after every Game save, of a new or of a stored game, exactly one
\* TeamEvent has related_game equal to the game, and its starts_at, stadium
\* and title are those of the game; a repeated save adds no second event.
C18_OneMirroredEventPerGame ==
    last.op = "game_save" => MirroredOnce(last.game)

\* game 1, stored from the start as a friendly game of day 2, was moved to
\* day 3, into the stadium and into league 1, and its one event followed
C18_Witness ==
    /\ last.op = "game_save" /\ last.game = 1
    /\ games[1].starts_at = 3
    /\ games[1].stadium = 1
    /\ games[1].competition = "league"
    /\ MirroredOnce(1)
    /\ Cardinality(DOMAIN games) = 3
    /\ Cardinality(teamEvents) = Cardinality(DOMAIN games)

\* C19: after a Game was deleted and its post_delete handler has run, no
\* TeamEvent that was synchronized for the game is left in the calendar.
C19_EventGoesWithGame ==
    last.op = "game_delete" => ~\E ev \in teamEvents : ev.id \in last.arg

----------------------------------------------------------------------------
(* Transactions: the recompute registered by a Game save runs at the commit *)

\* the rows a rollback restores
Snapshot ==
    [games |-> games, position |-> position, nominations |-> nominations,
     lines |-> lines, lineAssignments |-> lineAssignments, goals |-> goals,
     penalties |-> penalties, playerStats |-> playerStats, teams |-> teams,
     leagues |-> leagues, stadiums |-> stadiums, teamEvents |-> teamEvents,
     statRows |-> statRows]

\* transaction.atomic(), as ModelAdmin.changeform_view opens it
BeginTransaction ==
    /\ ~txn.open
    /\ txn' = [open |-> TRUE, before |-> {Snapshot}, on_commit |-> <<>>]
    /\ last' = Done("begin", None)
    /\ UNCHANGED <<cache, evicted, runs, cleaned, games, position, nominations, lines,
                   lineAssignments, goals, goalSeq, penalties, penaltySeq,
                   playerStats, teams, leagues, statRows, rowSeq, workers,
                   gameSeq, stadiums, teamEvents, eventSeq>>

\* the queued callbacks in the order of their registration: each calls
\* recompute_game with the Game instance that was saved
RECURSIVE run_callbacks(_, _)
run_callbacks(st, cbs) ==
    IF cbs = <<>> THEN st
    ELSE run_callbacks(
             recompute_game(Head(cbs).game, st,
                 [games EXCEPT ![Head(cbs).game] = Head(cbs).instance],
                 goals, penalties, lineAssignments, position),
             Tail(cbs))

\* the cache under the same callbacks: each recompute_game ends by deleting
\* the keys of the players with a row of the game, for the leagues of the
\* instance it was given
RECURSIVE invalidate_callbacks(_, _, _)
invalidate_callbacks(c, st, cbs) ==
    IF cbs = <<>> THEN c
    ELSE LET g == Head(cbs).game
             st1 == recompute_game(g, st,
                        [games EXCEPT ![g] = Head(cbs).instance],
                        goals, penalties, lineAssignments, position)
         IN  invalidate_callbacks(
                 invalidate_player_totals_cache(
                     c, {k[1] : k \in {x \in DOMAIN st1 : x[2] = g}},
                     possible_leagues(Head(cbs).instance, teams)),
                 st1, Tail(cbs))

\* the atomic block is left normally: the writes are kept and the callbacks run
Commit ==
    /\ txn.open
    /\ playerStats' = run_callbacks(playerStats, txn.on_commit)
    /\ txn' = NoTxn
    /\ last' = [Done("commit", None) EXCEPT
                   !.arg = {txn.on_commit[i].game : i \in DOMAIN txn.on_commit}]
    /\ cache' = invalidate_callbacks(cache, playerStats, txn.on_commit)
    /\ evicted' = DOMAIN cache \ DOMAIN cache'
    /\ UNCHANGED <<runs, cleaned, games, position, nominations, lines,
                   lineAssignments, goals, goalSeq, penalties, penaltySeq,
                   teams, leagues, statRows, rowSeq, workers, gameSeq,
                   stadiums, teamEvents, eventSeq>>

\* the atomic block is left by an exception: the rows are restored and the
\* callbacks discarded
Rollback ==
    /\ txn.open
    /\ \E b \in txn.before :
          /\ games' = b.games
          /\ position' = b.position
          /\ nominations' = b.nominations
          /\ lines' = b.lines
          /\ lineAssignments' = b.lineAssignments
          /\ goals' = b.goals
          /\ penalties' = b.penalties
          /\ playerStats' = b.playerStats
          /\ teams' = b.teams
          /\ leagues' = b.leagues
          /\ stadiums' = b.stadiums
          /\ teamEvents' = b.teamEvents
          /\ statRows' = b.statRows
    /\ txn' = NoTxn
    /\ last' = Done("rollback", None)
    /\ UNCHANGED <<cache, evicted, runs, cleaned, goalSeq, penaltySeq, rowSeq, workers,
                   gameSeq, eventSeq>>

\* a score is saved and the goalies are put in goal, inside transactions and
\* outside
NextCommit ==
    \/ BeginTransaction
    \/ Commit
    \/ Rollback
    \/ \E sh, sa \in 0..MaxScore : SaveGameScore(1, sh, sa)
    \/ \E l \in GoalieLines, p \in Players : SaveLineAssignment(l, "G", p)
    \/ \E la \in lineAssignments : DeleteLineAssignment(la)

SpecCommit == Fixture({1}, Players) /\ [][NextCommit]_vars

\* every goalie in slot G of a line 0 of g has the opposing score, as the
\* rows st, GM and LA show it
GoaliesConcede(g, st, GM, LA) ==
    \A la \in LA :
        (/\ la.line.game = g /\ la.line.line_number = 0 /\ la.slot = "G"
         /\ la.player # None /\ position[la.player] = "goalie") =>
            /\ <<la.player, g>> \in DOMAIN st
            /\ st[<<la.player, g>>].goals_against =
                  IF la.line.team = GM[g].home_team
                  THEN GM[g].score_away ELSE GM[g].score_home

\* C20: once a Game save that changed the score has committed, recompute_game
\* has run for the game and every goalie in slot G of a line 0 has
\* goals_against equal to the new opposing score; inside a transaction the
\* recompute waits for the commit, and a rollback runs none of the queued
\* recomputes.
C20_RecomputeAtCommit ==
    [][/\ (last'.op = "game_save" /\ ~txn.open) =>
              GoaliesConcede(last'.game, playerStats', games', lineAssignments')
       /\ (last'.op = "game_save" /\ txn.open) =>
              /\ playerStats' = playerStats
              /\ Len(txn'.on_commit) = Len(txn.on_commit) + 1
       /\ last'.op = "commit" =>
              \A g \in last'.arg :
                  GoaliesConcede(g, playerStats', games', lineAssignments')
       /\ last'.op = "rollback" =>
              /\ \A b \in txn.before : playerStats' = b.playerStats
              /\ txn'.on_commit = <<>>]_vars

\* a transaction that changed the score of game 1 has committed; the goalie in
\* goal for the home side has the away score, which is not the number the
\* goalie had when the transaction began
C20_Witness ==
    /\ last.op = "commit" /\ 1 \in last.arg
    /\ \E la \in GoalieSlots(1) :
          /\ la.line.team = games[1].home_team
          /\ la.player # None /\ position[la.player] = "goalie"
          /\ games[1].score_away = 2
          /\ playerStats[<<la.player, 1>>].goals_against = 2

----------------------------------------------------------------------------
(* recompute_game: what it leaves alone *)

\* PlayerStatsAdmin: the row of player p in game g is saved with the shots
\* and goals typed into the form; no signal listens to PlayerStats
PlayerStatsEdited(p, g, shots, gl) ==
    /\ g \in DOMAIN games
    /\ playerStats' =
          save_row(get_or_create(playerStats, p, g), p, g,
                   [get_or_create(playerStats, p, g)[<<p, g>>] EXCEPT
                       !.shots = shots, !.goals = gl])
    /\ playerStats' # playerStats
    /\ last' = Done("stats_edit", g)
    /\ UNCHANGED <<cache, evicted, runs, cleaned, txn, gameSeq, stadiums, teamEvents,
                   eventSeq, statRows, rowSeq, workers, teams, leagues,
                   games, position, nominations, lines, lineAssignments,
                   goals, goalSeq, penalties, penaltySeq>>

\* two games with rows of player 1 edited by hand; goals are scored, the
\* score of game 1 is saved and the games are recomputed from the admin action
NextFrame ==
    \/ \E g \in GameIds, shots, gl \in 0..1 :
          PlayerStatsEdited(1, g, shots, gl)
    \/ \E e \in SoloGoals :
          CreateGoal(e.game, e.team, e.scorer, e.assist_1, e.assist_2)
    \/ \E sa \in 0..1 : SaveGameScore(1, 0, sa)
    \/ \E g \in GameIds : RecomputeSelected(g)

SpecFrame == Fixture(GameIds, Players) /\ [][NextFrame]_vars

----------------------------------------------------------------------------
(* Lineup: two requests validate and save at the same time *)

\* the row a request is about to write: an INSERT when the slot of the line
\* was free at the time the form was validated, an UPDATE of the row otherwise
Request(la) ==
    [la |-> la,
     insert |-> ~\E o \in lineAssignments : o.line = la.line /\ o.slot = la.slot]

\* the table also refuses a second assignment of the player in the game
save_rejected_per_game(LA, r) ==
    \/ r.insert /\ \E o \in LA : o.line = r.la.line /\ o.slot = r.la.slot
    \/ /\ r.la.player # None
       /\ \E o \in LA : /\ o.player = r.la.player
                        /\ o.line.game = r.la.line.game
                        /\ o.line # r.la.line

\* LineAssignment.Meta: unique_together (line, slot) is the only constraint of
\* the table; an INSERT into a slot that was taken meanwhile is refused
save_rejected(LA, r) ==
    r.insert /\ \E o \in LA : o.line = r.la.line /\ o.slot = r.la.slot

\* the request of worker w runs full_clean() on its assignment and passes
CleanAssignment(w, l, slot, p) ==
    LET la == [line |-> l, slot |-> slot, player |-> p]
    IN  /\ cleaned[w] = {}
        /\ l \in lines
        /\ la \notin lineAssignments
        /\ LineAssignment_clean(la)
        /\ cleaned' = [cleaned EXCEPT ![w] = {Request(la)}]
        /\ last' = Cleaned("lineup_clean", [game |-> l.game], "ok")
        /\ UNCHANGED <<cache, evicted, runs, txn, gameSeq, stadiums, teamEvents, eventSeq,
                       statRows, rowSeq, workers, teams, leagues, games,
                       position, nominations, lines, lineAssignments, goals,
                       goalSeq, penalties, penaltySeq, playerStats>>

\* the request of worker w saves the assignment it validated; post_save ->
\* _lineup_changed recomputes the game
SaveCleaned(w) ==
    \E r \in cleaned[w] :
        /\ lineAssignments' =
              IF save_rejected(lineAssignments, r) THEN lineAssignments
              ELSE OtherAssignments(r.la) \cup {r.la}
        /\ playerStats' =
              IF save_rejected(lineAssignments, r) THEN playerStats
              ELSE recompute_game(r.la.line.game, playerStats, games, goals,
                                  penalties, lineAssignments', position)
        /\ cleaned' = [cleaned EXCEPT ![w] = {}]
        /\ last' = Cleaned("lineup_write",
                       [game |-> r.la.line.game, la |-> r.la],
                       IF save_rejected(lineAssignments, r)
                       THEN "integrity" ELSE "ok")
        /\ UNCHANGED <<runs, txn, gameSeq, stadiums, teamEvents, eventSeq,
                       statRows, rowSeq, workers, teams, leagues, games,
                       position, nominations, lines, goals, goalSeq,
                       penalties, penaltySeq>>
        /\ Invalidate(~save_rejected(lineAssignments, r), <<r.la.line.game>>)

\* the lines of team 1 in game 1, filled by concurrent requests
NextRace ==
    \/ \E w \in Workers, l \in lines, slot \in {"G", "LW"}, p \in {1, 2} :
          l.team = 1 /\ CleanAssignment(w, l, slot, p)
    \/ \E w \in Workers : SaveCleaned(w)
    \/ \E la \in lineAssignments : DeleteLineAssignment(la)

SpecRace == Fixture({1}, Players) /\ [][NextRace]_vars

\* the player holds assignments in two lines of the game g
InTwoLines(p, g) ==
    \E a, b \in lineAssignments :
        /\ a.player = p /\ b.player = p
        /\ a.line.game = g /\ b.line.game = g
        /\ a.line # b.line

\* C22: a request that passed LineAssignment.clean and writes into a slot
\* that is free is never refused by the database, whatever the player holds
\* by then; so two concurrent requests for two lines of one game both save.
C22_SecondWriteAccepted ==
    [][(/\ last'.op = "lineup_write"
        /\ ~\E o \in lineAssignments :
               o.line = last'.arg.la.line /\ o.slot = last'.arg.la.slot) =>
          /\ last'.err = "ok"
          /\ last'.arg.la \in lineAssignments']_vars

\* both requests validated goalie 2 while no assignment was stored, both
\* wrote, and goalie 2 now stands in line 0 and in line 1 of game 1
C22_Witness ==
    /\ last.op = "lineup_write" /\ last.err = "ok"
    /\ last.arg.la.player = 2
    /\ InTwoLines(2, 1)

----------------------------------------------------------------------------
(* recompute_game, statement by statement, run by several workers *)

\* the rows of one aggregate query as the loop visits them: the players of
\* todo in ascending order, each with the number n[p] of its row
RECURSIVE items_for(_, _, _)
items_for(kind, todo, n) ==
    IF todo = {} THEN <<>>
    ELSE LET p == CHOOSE x \in todo : \A y \in todo : x <= y
         IN  <<[kind |-> kind, player |-> p, n |-> n[p]]>>
                 \o items_for(kind, todo \ {p}, n)

\* the loops of recompute_game(g) in their order: goals, assist_1, assist_2,
\* penalty minutes, goals against of the goalies in slot G of a line 0
work_items(g) ==
    items_for("goals", {x.scorer : x \in {y \in goals : y.game = g}},
        [p \in Players |-> GoalsScored(p, g)])
    \o items_for("assists",
           {x.assist_1 : x \in {y \in goals : y.game = g /\ y.assist_1 # None}},
           [p \in Players |->
               Cardinality({x \in goals : x.game = g /\ x.assist_1 = p})])
    \o items_for("assists",
           {x.assist_2 : x \in {y \in goals : y.game = g /\ y.assist_2 # None}},
           [p \in Players |->
               Cardinality({x \in goals : x.game = g /\ x.assist_2 = p})])
    \o items_for("penalty_minutes",
           {x.penalized_player : x \in {y \in penalties : y.game = g}},
           [p \in Players |-> MinutesServed(p, g)])
    \o items_for("goals_against",
           {p \in Players : GoalieSlotsOf(p, g) # {}},
           [p \in Players |->
               IF GoalieSlotsOf(p, g) = {} THEN 0
               ELSE conceded_by(CHOOSE la \in GoalieSlotsOf(p, g) : TRUE,
                                games[g])])

\* the assists are saved without the points
saved_without_points(db, stats, item) ==
    IF item.kind = "goals"
        THEN [db EXCEPT !.goals = item.n]
    ELSE IF item.kind = "assists"
        THEN [db EXCEPT !.assists = stats.assists + item.n]
    ELSE IF item.kind = "penalty_minutes"
        THEN [db EXCEPT !.penalty_minutes = item.n]
    ELSE [db EXCEPT !.goals_against = item.n]

\* stats.save(update_fields=[...]): the columns named by the loop are written
\* from the object stats that was read before, the other columns of the
\* stored row db stay
saved(db, stats, item) ==
    IF item.kind = "goals"
        THEN [db EXCEPT !.goals = item.n, !.points = item.n + stats.assists]
    ELSE IF item.kind = "assists"
        THEN [db EXCEPT !.assists = stats.assists + item.n,
                        !.points = stats.goals + stats.assists + item.n]
    ELSE IF item.kind = "penalty_minutes"
        THEN [db EXCEPT !.penalty_minutes = item.n]
    ELSE [db EXCEPT !.goals_against = item.n]

Running(w) == runs[w].pc # "idle"

\* worker w enters recompute_game(g) and executes the reset
BeginRecompute(w, g) ==
    /\ ~Running(w)
    /\ runs[w].started < MaxRuns
    /\ g \in DOMAIN games
    /\ playerStats' = reset_stats(playerStats, g)
    /\ runs' = [v \in Workers |->
                   IF v = w
                   THEN [pc |-> "read", game |-> g, items |-> work_items(g),
                         stats |-> {},
                         alone |-> \A u \in Workers \ {w} : ~Running(u),
                         started |-> runs[w].started + 1]
                   ELSE IF Running(v) THEN [runs[v] EXCEPT !.alone = FALSE]
                   ELSE runs[v]]
    /\ last' = Done("recompute_begin", g)
    /\ UNCHANGED <<cache, evicted, cleaned, txn, gameSeq, stadiums, teamEvents, eventSeq,
                   statRows, rowSeq, workers, teams, leagues, games, position,
                   nominations, lines, lineAssignments, goals, goalSeq,
                   penalties, penaltySeq>>

\* stats, _ = PlayerStats.objects.get_or_create(player_id=..., game=game)
ReadStats(w) ==
    /\ runs[w].pc = "read" /\ runs[w].items # <<>>
    /\ LET p == Head(runs[w].items).player
           g == runs[w].game
       IN  /\ playerStats' = get_or_create(playerStats, p, g)
           /\ runs' = [runs EXCEPT ![w].pc = "save",
                                   ![w].stats = {playerStats'[<<p, g>>]}]
           /\ last' = Done("recompute_read", g)
    /\ UNCHANGED <<cache, evicted, cleaned, txn, gameSeq, stadiums, teamEvents, eventSeq,
                   statRows, rowSeq, workers, teams, leagues, games, position,
                   nominations, lines, lineAssignments, goals, goalSeq,
                   penalties, penaltySeq>>

\* stats.<column> = ...; stats.save(update_fields=[...])
SaveStats(w) ==
    /\ runs[w].pc = "save"
    /\ LET item == Head(runs[w].items)
           g    == runs[w].game
           k    == <<item.player, g>>
       IN  /\ \E stats \in runs[w].stats :
                 playerStats' =
                     [playerStats EXCEPT ![k] = saved(@, stats, item)]
           /\ runs' = [runs EXCEPT ![w].pc = "read",
                                   ![w].items = Tail(@),
                                   ![w].stats = {}]
           /\ last' = Done("recompute_save", g)
    /\ UNCHANGED <<cache, evicted, cleaned, txn, gameSeq, stadiums, teamEvents, eventSeq,
                   statRows, rowSeq, workers, teams, leagues, games, position,
                   nominations, lines, lineAssignments, goals, goalSeq,
                   penalties, penaltySeq>>

\* the last loop is over: recompute_game returns
EndRecompute(w) ==
    /\ runs[w].pc = "read" /\ runs[w].items = <<>>
    /\ runs' = [runs EXCEPT ![w] = [NoRun EXCEPT !.started = runs[w].started]]
    /\ last' = [Done("recompute_end", runs[w].game) EXCEPT
                   !.arg = [alone |-> runs[w].alone]]
    /\ UNCHANGED <<cleaned, txn, gameSeq, stadiums, teamEvents, eventSeq,
                   statRows, rowSeq, workers, teams, leagues, games, position,
                   nominations, lines, lineAssignments, goals, goalSeq,
                   penalties, penaltySeq, playerStats>>
    /\ Invalidate(TRUE, <<runs[w].game>>)

\* game 1 with its goal (scorer 1, assist 2) and its penalty; the events do
\* not change while the workers recompute
NextInterleaved ==
    \/ \E w \in Workers : BeginRecompute(w, 1)
    \/ \E w \in Workers : ReadStats(w)
    \/ \E w \in Workers : SaveStats(w)
    \/ \E w \in Workers : EndRecompute(w)

SpecInterleaved == InitGoalies /\ [][NextInterleaved]_vars

AllIdle == \A w \in Workers : ~Running(w)

\* the row of p shows more assists, and more points, than the goals record
AssistsExceed(p, g) ==
    /\ HasRow(p, g)
    /\ playerStats[<<p, g>>].assists > AssistsGiven(p, g)
    /\ playerStats[<<p, g>>].points > GoalsScored(p, g) + AssistsGiven(p, g)

\* C23: a recompute_game that ran from its reset to its end with no other run
\* of the game in progress leaves the single-run result, and when all runs
\* are over no row shows fewer assists than the goals record; runs that
\* interleave can leave a row with more assists and points than recorded.
C23_OnlyLoneRunsAreExact ==
    /\ (last.op = "recompute_end" /\ last.arg.alone) =>
           /\ StatsMatchEvents(last.game)
           /\ \A p \in Players : HasRow(p, last.game) =>
                 playerStats[<<p, last.game>>].points =
                     GoalsScored(p, last.game) + AssistsGiven(p, last.game)
    /\ AllIdle =>
           \A p \in Players : HasRow(p, 1) =>
               playerStats[<<p, 1>>].assists >= AssistsGiven(p, 1)

\* two runs of game 1 interleaved and both returned: player 2, who has one
\* assist on record, is left with two assists and two points
C23_Witness ==
    /\ AllIdle
    /\ last.op = "recompute_end"
    /\ AssistsGiven(2, 1) = 1
    /\ AssistsExceed(2, 1)
    /\ playerStats[<<2, 1>>].assists = 2

----------------------------------------------------------------------------
(* sync_results: the goals of a game are pruned to the fetched score *)

\* game 1 as an earlier run of the command stored it: team "a" against team
\* "b" in league 1 on day 2
LeagueGame == [NewGame(1) EXCEPT !.competition = "league", !.league = 1]

InitPrune ==
    /\ games = [g \in {1} |-> LeagueGame]
    /\ InitCalendar
    /\ position = [p \in Players |-> IF p = 1 THEN "forward" ELSE "goalie"]
    /\ nominations = Nominations({1}, Players)
    /\ lines = DefaultLines({1})
    /\ lineAssignments = {}
    /\ goals = {}
    /\ goalSeq = 0
    /\ penalties = {}
    /\ penaltySeq = 0
    /\ playerStats = EmptyStats
    /\ last = Idle
    /\ InitTables

\* the match of game 1 as fetched: scheduled, or finished 1:0, 1:1 or 2:1
PruneMatches ==
    {Match(1, 2, sc[1], sc[2], <<2>>, Null) :
        sc \in {<<Null, Null>>, <<<<1>>, <<0>>>>, <<<<1>>, <<1>>>>,
                <<<<2>>, <<1>>>>}}

\* goals of both teams are entered for the first or the second period, in
\* any order, and the command runs for league 1
NextPrune ==
    \/ \E s \in Players, a1 \in {None, 2}, period \in 1..2 :
          GoalSavedAt(1, PlayerTeam(s), s, a1, None, period, 0, FALSE)
    \/ \E matches \in Batches(PruneMatches, MaxMatches) :
          SyncResults(1, matches, FALSE, TRUE)

SpecPrune == InitPrune /\ [][NextPrune]_vars

GoalsOf(g, team) == {e \in goals : e.game = g /\ e.team = team}

\* C24: after a run that is not dry, every Game that a fetched match was
\* stored as has at most score_home goals of its home team and at most
\* score_away goals of its away team, and the PlayerStats rows of the game
\* show the goals, assists and points of the goals that are left.
C24_GoalsWithinScore ==
    (last.op = "sync_results" /\ ~last.arg.dry) =>
        \A i \in 1..Len(last.arg.matches) :
            last.arg.matches[i].match_date # Null =>
                \A g \in GamesOfMatch(last.arg.matches[i], last.arg.league) :
                    /\ Cardinality(GoalsOf(g, games[g].home_team))
                          <= games[g].score_home
                    /\ Cardinality(GoalsOf(g, games[g].away_team))
                          <= games[g].score_away
                    /\ StatsMatchEvents(g)
                    /\ \A p \in Players : HasRow(p, g) =>
                          playerStats[<<p, g>>].points =
                              GoalsScored(p, g) + AssistsGiven(p, g)

\* game 1 had two goals of its home team, one with an assist of player 2; the
\* match was fetched as 1:0, one home goal is left and the rows follow it
C24_Witness ==
    /\ last.op = "sync_results" /\ ~last.arg.dry
    /\ goalSeq = 2
    /\ games[1].score_home = 1 /\ games[1].score_away = 0
    /\ Cardinality(GoalsOf(1, 1)) = 1
    /\ HasRow(2, 1) /\ playerStats[<<2, 1>>].points = 0
    /\ \E p \in Players : HasRow(p, 1) /\ playerStats[<<p, 1>>].goals = 1

\* C25: when prune_goals_to_score deletes goals of a team, every goal it
\* deletes is older, by period, then second_in_period, then id, than every
\* goal of that team and game it keeps.
C25_PruneKeepsNewest ==
    [][last'.op = "sync_results" =>
          \A d \in goals \ goals', k \in goals' :
              (d.game = k.game /\ d.team = k.team) => newer(k, d)]_vars

----------------------------------------------------------------------------
(* sync_results: a match that raises *)

\* a finished match of the stored teams in stadium 1, inside the season of
\* league 1 or after it, and a match after the season between the unknown
\* team "d" and a team whose id is null
FailingMatches ==
    {Match(1, 2, <<2>>, <<1>>, <<d>>, <<1>>) : d \in {2, 4}}
        \cup {Match(4, None, Null, Null, <<4>>, Null)}

NextAtomic ==
    \E league \in Leagues, matches \in Batches(FailingMatches, MaxMatches),
       expand \in BOOLEAN :
        SyncResults(league, matches, FALSE, expand)

SpecAtomic == Fixture({1}, {1}) /\ [][NextAtomic]_vars

\* C26: when the processing of a fetched match raises, nothing the run has
\* changed persists: the Game, Team, Stadium and Goal rows and the dates of
\* the leagues are as they were before the run.
C26_FailedRunWritesNothing ==
    [][(last'.op = "sync_results" /\ last'.failed) =>
          UNCHANGED <<games, teams, stadiums, goals, leagues>>]_vars

----------------------------------------------------------------------------
(* recompute_game: a failure partway *)

\* C27: when recompute_game raises partway in a save that runs outside an
\* open transaction, the PlayerStats rows are, once the save has finished,
\* what they were before the call: no partial result is left.
C27_FailedRecomputeLeavesRows ==
    [][(last'.failed /\ ~txn.open) => playerStats' = playerStats]_vars


----------------------------------------------------------------------------
(* The season totals list of the admin *)

\* the values a LEFT OUTER JOIN contributes for one player: the related ids,
\* or a single NULL when the player has no related row
left_join(R) == IF R = {} THEN {None} ELSE R

\* the rows of player p in the query of get_queryset(): one LEFT OUTER JOIN
\* per relation named in the annotations, all grouped by the player
joined_rows(p) ==
    [nomination : left_join({n.game : n \in {x \in nominations : x.player = p}}),
     goals_scored : left_join({x.id : x \in {y \in goals : y.scorer = p}}),
     assists_primary : left_join({x.id : x \in {y \in goals : y.assist_1 = p}}),
     assists_secondary : left_join({x.id : x \in {y \in goals : y.assist_2 = p}}),
     penalty : left_join({x.id : x \in {y \in penalties : y.penalized_player = p}})]

\* Count(field): the joined rows whose field is not NULL
Count(rows, field) == Cardinality({r \in rows : r[field] # None})

\* Count(field, distinct=True): the distinct values that are not NULL
CountDistinct(rows, field) == Cardinality({r[field] : r \in rows} \ {None})

\* Sum("penalty__minutes"): the minutes of the penalty of every joined row
RECURSIVE Sum(_)
Sum(rows) ==
    IF rows = {} THEN 0
    ELSE LET r == CHOOSE x \in rows : TRUE
             m == IF r.penalty = None THEN 0
                  ELSE (CHOOSE x \in penalties : x.id = r.penalty).minutes
         IN  m + Sum(rows \ {r})

\* the annotations of one player of the list
annotate(p) ==
    LET rows == joined_rows(p)
        g == Count(rows, "goals_scored")
        a == Count(rows, "assists_primary") + Count(rows, "assists_secondary")
    IN  [games_played |-> CountDistinct(rows, "nomination"),
         goals |-> g,
         assists |-> a,
         points |-> g + a,
         penalty_minutes |-> Sum(rows)]

\* the list view is opened: every player with the annotations
ChangeList ==
    /\ last' = [Done("changelist", None) EXCEPT
                   !.arg = [p \in Players |-> annotate(p)]]
    /\ UNCHANGED <<cache, evicted, games, position, nominations, lines, lineAssignments,
                   goals, goalSeq, penalties, penaltySeq, playerStats, teams,
                   leagues, statRows, rowSeq, workers, gameSeq, stadiums,
                   teamEvents, eventSeq, txn, cleaned, runs>>

\* the goals and penalties of team 1 in both games, player 1 scoring
TotalsGoals ==
    {e \in GoalInputs : e.team = 1 /\ e.scorer = 1 /\ e.assist_2 = None
                        /\ e.assist_1 \in {None, 2}}

TotalsPenalties == {e \in PenaltyInputs : e.team = 1 /\ e.penalized_player = 1}

\* two games with players 1 and 2 nominated: goals and penalties are
\* recorded, nominations removed, and the list is opened in between
NextTotals ==
    \/ \E e \in TotalsGoals :
          CreateGoal(e.game, e.team, e.scorer, e.assist_1, e.assist_2)
    \/ \E e \in TotalsPenalties :
          CreatePenalty(e.game, e.team, e.penalized_player, e.minutes)
    \/ \E n \in nominations : DeleteNomination(n)
    \/ ChangeList

SpecTotals == Fixture(GameIds, {1, 2}) /\ [][NextTotals]_vars

\* C28: the season totals list shows for every player the number of goals
\* the player scored, the number of goals the player assisted, the sum of
\* the player's penalty minutes and the number of distinct nominated
\* games, however many rows of the other relations the player has.
C28_TotalsCountEachRowOnce ==
    last.op = "changelist" =>
        \A p \in Players :
            /\ last.arg[p].goals = Cardinality({x \in goals : x.scorer = p})
            /\ last.arg[p].assists =
                   Cardinality({x \in goals : x.assist_1 = p})
                     + Cardinality({x \in goals : x.assist_2 = p})
            /\ last.arg[p].penalty_minutes =
                   SumMinutes({x \in penalties : x.penalized_player = p})
            /\ last.arg[p].games_played =
                   Cardinality({n.game : n \in {x \in nominations : x.player = p}})


----------------------------------------------------------------------------
(* The nomination checkboxes of the game form *)

\* the players a nomination grid offers: Player.objects.filter(team_id=team)
Selectable(team) == {p \in Players : PlayerTeam(p) = team}

\* sync_side(team, selected_ids): rows of the checked players that have none
\* are created (conflicting rows are skipped), rows of the others are deleted
sync_side(N, g, team, selected) ==
    LET existing == {n.player : n \in {x \in N : x.game = g /\ x.team = team}}
        to_add == selected \ existing
        to_del == existing \ selected
        created == {[game |-> g, player |-> p, team |-> team] :
                       p \in {q \in to_add :
                                 ~\E x \in N : x.game = g /\ x.player = q}}
    IN  {n \in N : ~(n.game = g /\ n.team = team /\ n.player \in to_del)}
          \cup created

\* GameAdmin.save_related: the two grids are synced to GameNomination rows
SaveRelated(g, home_sel, away_sel) ==
    /\ g \in DOMAIN games
    /\ home_sel \subseteq Selectable(games[g].home_team)
    /\ away_sel \subseteq Selectable(games[g].away_team)
    /\ nominations' =
           sync_side(sync_side(nominations, g, games[g].home_team, home_sel),
                     g, games[g].away_team, away_sel)
    /\ last' = Done("save_related", g)
    /\ UNCHANGED <<cache, evicted, games, position, lines, lineAssignments, goals, goalSeq,
                   penalties, penaltySeq, playerStats, teams, leagues,
                   statRows, rowSeq, workers, gameSeq, stadiums, teamEvents,
                   eventSeq, txn, cleaned, runs>>

\* one game with nobody nominated: the grids are saved with every selection,
\* goals and penalties are saved after clean()
NextCheckboxes ==
    \/ \E hs, as \in SUBSET Players : SaveRelated(1, hs, as)
    \/ \E e \in GoalInputs :
          CreateGoal(e.game, e.team, e.scorer, e.assist_1, e.assist_2)
    \/ \E e \in MinorPenalties :
          CreatePenalty(e.game, e.team, e.penalized_player, e.minutes)

SpecCheckboxes == Fixture({1}, {}) /\ [][NextCheckboxes]_vars

\* C29: every player a Goal (scorer, assist_1, assist_2) or a Penalty of a
\* game refers to has a GameNomination row for that game.
C29_EventPlayersNominated ==
    /\ \A e \in goals : \A p \in {e.scorer, e.assist_1, e.assist_2} \ {None} :
           Nominated(e.game, p)
    /\ \A e \in penalties : Nominated(e.game, e.penalized_player)


----------------------------------------------------------------------------
(* Season totals read through the cache *)

\* game_filters of get_player_totals_from_playerstats: the competition
\* switch, the league of a league total, and the season window of the league
\* for the other switches
game_filters(gm, season_league, comp) ==
    /\ comp # "all" => gm.competition = comp
    /\ (comp = "league" /\ season_league # None) => gm.league = season_league
    /\ (comp # "league" /\ season_league # None) =>
           /\ leagues[season_league].date_start <= gm.starts_at
           /\ gm.starts_at <= leagues[season_league].date_end

\* Sum(field) over the PlayerStats rows with the keys K
RECURSIVE sum_field(_, _, _)
sum_field(st, K, field) ==
    IF K = {} THEN 0
    ELSE LET k == CHOOSE x \in K : TRUE
         IN  st[k][field] + sum_field(st, K \ {k}, field)

\* get_player_totals_from_playerstats(player, season_league, competitions)
get_player_totals_from_playerstats(p, season_league, comp) ==
    LET G  == {g \in DOMAIN games : game_filters(games[g], season_league, comp)}
        gp == Cardinality({n.game : n \in {x \in nominations :
                                              x.player = p /\ x.game \in G}})
        K  == {k \in DOMAIN playerStats : k[1] = p /\ k[2] \in G}
        g  == sum_field(playerStats, K, "goals")
        a  == sum_field(playerStats, K, "assists")
        pim == sum_field(playerStats, K, "penalty_minutes")
        ga == sum_field(playerStats, K, "goals_against")
    IN  IF position[p] = "goalie"
        THEN [gp |-> gp, ga |-> ga, g |-> g, a |-> a, pim |-> pim]
        ELSE [gp |-> gp, g |-> g, a |-> a, pts |-> g + a, pim |-> pim]

\* cached_player_totals(player, season_league, competitions): with DEBUG
\* the totals are computed on every call; otherwise cache.get_or_set
\* returns the entry of the key and stores the computed totals when there
\* is none
cached_player_totals(c, p, season_league, comp, debug) ==
    LET key == totals_cache_key(p, season_league, comp)
        data == get_player_totals_from_playerstats(p, season_league, comp)
    IN  IF debug THEN [cache |-> c, data |-> data]
        ELSE IF key \in DOMAIN c THEN [cache |-> c, data |-> c[key]]
        ELSE [cache |-> c @@ (key :> data), data |-> data]

\* the entries the cache holds at most in this model
MaxEntries == 2

\* the player page asks for the totals of a player
CachedPlayerTotals(p, season_league, comp, debug) ==
    LET r == cached_player_totals(cache, p, season_league, comp, debug)
    IN  /\ Cardinality(DOMAIN r.cache) <= MaxEntries
        /\ cache' = r.cache
        /\ evicted' = {}
        /\ last' = [Done("totals", None) EXCEPT
                       !.arg = [player |-> p, league |-> season_league,
                                comp |-> comp, data |-> r.data]]
        /\ UNCHANGED <<games, position, nominations, lines, lineAssignments,
                       goals, goalSeq, penalties, penaltySeq, playerStats,
                       teams, leagues, statRows, rowSeq, workers, gameSeq,
                       stadiums, teamEvents, eventSeq, txn, cleaned, runs>>

\* CACHE_TTL has passed for an entry
Expire(k) ==
    /\ k \in DOMAIN cache
    /\ cache' = [x \in DOMAIN cache \ {k} |-> cache[x]]
    /\ evicted' = {}
    /\ last' = Done("expire", None)
    /\ UNCHANGED <<games, position, nominations, lines, lineAssignments,
                   goals, goalSeq, penalties, penaltySeq, playerStats,
                   teams, leagues, statRows, rowSeq, workers, gameSeq,
                   stadiums, teamEvents, eventSeq, txn, cleaned, runs>>

\* two games with every player nominated: the totals of players 1 and 2 are
\* read through the cache, for no league and for league 2 (the league of
\* team 3, which plays in game 2 only), while player 1 scores and games are
\* recomputed
NextCache ==
    \/ \E p \in {1, 2}, l \in {None, 2}, comp \in {"league", "all"},
          debug \in BOOLEAN : CachedPlayerTotals(p, l, comp, debug)
    \/ \E k \in DOMAIN cache : Expire(k)
    \/ \E e \in TotalsGoals :
          CreateGoal(e.game, e.team, e.scorer, e.assist_1, e.assist_2)
    \/ \E g \in GameIds : RecomputeSelected(g)

SpecCache == Fixture(GameIds, Players) /\ [][NextCache]_vars

\* the keys recompute_game(g) is to clear: the players with a row of the
\* game, the leagues of the game and of its two teams or none, every switch
KeysOfGame(g) ==
    {totals_cache_key(k[1], l, comp) :
        k \in {x \in DOMAIN playerStats : x[2] = g},
        l \in {games[g].league, teams[games[g].home_team].league,
               teams[games[g].away_team].league, None},
        comp \in {"league", "tournament", "friendly", "all"}}

\* C30: after recompute_game(game) has returned, the cache holds no entry
\* under a key of a player with a PlayerStats row of the game, a league of
\* the game or of its teams or none, and any competition switch; the next
\* cached_player_totals call for such a key returns the totals of the
\* current PlayerStats rows.
C30_RecomputeClearsTotals ==
    \A g \in DOMAIN games :
        Recomputed(g) =>
            \A k \in KeysOfGame(g) :
                /\ k \notin DOMAIN cache
                /\ cached_player_totals(cache, k[1], k[2], k[3], FALSE).data
                       = get_player_totals_from_playerstats(k[1], k[2], k[3])

\* a recompute of game 1 has just removed an entry of player 1 that was
\* computed before the goal of player 1 was recorded
C30_Witness ==
    /\ Recomputed(1)
    /\ \E k \in evicted : k[1] = 1 /\ k \in KeysOfGame(1)
    /\ playerStats[<<1, 1>>].goals > 0

====
